---- MODULE Spec2Model ----
(***************************************************************************)
(* Holiday-anchored week mapping of the STR Pricing Updater:               *)
(*   src/src/utils/holidays.js     holiday dates, rental weeks, week keys   *)
(*   src/src/utils/weekMapping.js  mapWeeksByHolidays, detectConflicts,     *)
(*                                 applyResolutions                         *)
(*                                                                         *)
(* A JavaScript Date at local midnight is modelled by its local calendar   *)
(* day number (days since 1970-01-01); getTime() is that number, so the    *)
(* code's Math.round(diffMs / 86400000), which absorbs the daylight-saving *)
(* hour, is the difference of two day numbers.  Months are 0-based as in   *)
(* the Date API.  A JavaScript string that the code takes apart (a week    *)
(* key, an ISO date) is modelled by the tuple of its fields.               *)
(***************************************************************************)
EXTENDS Integers, Sequences, FiniteSets, TLC

VARIABLES
    sourceYear,     \* argument sourceYear of mapWeeksByHolidays
    targetYear,     \* argument targetYear of mapWeeksByHolidays / detectConflicts
    weekStartDay,   \* settings.weekStartDay, 0 = Sunday .. 6 = Saturday
    tzWest,         \* TRUE: the local zone is west of UTC (new Date("YYYY-MM-DD") is the previous local day)
    anchors,        \* settings.anchors
    sourceWeeks,    \* the source week records handed to mapWeeksByHolidays
    mappings,       \* the list returned by mapWeeksByHolidays
    conflicts,      \* the list returned by detectConflicts, with the resolutions the UI wrote back
    resolved,       \* the list returned by applyResolutions
    pc,             \* "input" -> "mapped" -> "detected" -> "applied"
    call            \* a direct call of an exported function: its name, its arguments, its result

vars == <<sourceYear, targetYear, weekStartDay, tzWest, anchors, sourceWeeks,
          mappings, conflicts, resolved, pc, call>>

-----------------------------------------------------------------------------
(* Bounds of the model *)

\* first source year explored (the year the tests use)
BaseYear == 2026
\* number of consecutive source years explored
NumYears == 3
\* longest source week list of the pipeline specification
MaxWeeks == 3
\* a source week may start up to MaxSkew days after the configured start weekday
MaxSkew == 1

Years == BaseYear .. (BaseYear + NumYears - 1)

-----------------------------------------------------------------------------
(* The Date API *)

IsLeap(y) == (y % 4 = 0 /\ y % 100 # 0) \/ y % 400 = 0

LeapsBefore(y) == ((y - 1) \div 4) - ((y - 1) \div 100) + ((y - 1) \div 400)

\* day number of January 1 of year y
DaysBeforeYear(y) == 365 * (y - 1970) + LeapsBefore(y) - LeapsBefore(1970)

DaysInMonth(y, m) ==
    IF m = 1 THEN (IF IsLeap(y) THEN 29 ELSE 28)
    ELSE IF m \in {3, 5, 8, 10} THEN 30 ELSE 31

\* days of a common year before each month
CumulativeDays == <<0, 31, 59, 90, 120, 151, 181, 212, 243, 273, 304, 334>>

DaysBeforeMonth(y, m) == CumulativeDays[m + 1] + (IF m > 1 /\ IsLeap(y) THEN 1 ELSE 0)

\* new Date(y, m, d): m is 0-based; a month or a day outside its range rolls over
MakeDate(y, m, d) ==
    LET yy == y + (m \div 12)
        mm == m % 12
    IN  DaysBeforeYear(yy) + DaysBeforeMonth(yy, mm) + (d - 1)

\* the calendar fields of a day number
YearOfDay(date) ==
    LET est == 1970 + (date \div 365)
    IN  CHOOSE y \in (est - 1) .. (est + 1) :
            DaysBeforeYear(y) <= date /\ date < DaysBeforeYear(y + 1)

MonthOfDay(date) ==
    LET y == YearOfDay(date)
        r == date - DaysBeforeYear(y)
    IN  CHOOSE m \in 0 .. 11 :
            DaysBeforeMonth(y, m) <= r /\ r < DaysBeforeMonth(y, m) + DaysInMonth(y, m)

CalendarFields(date) ==
    LET y == YearOfDay(date)
        m == MonthOfDay(date)
    IN  [year |-> y, month |-> m, day |-> date - DaysBeforeYear(y) - DaysBeforeMonth(y, m) + 1]

\* the calendar fields of the days the model meets, computed once
CalendarWindow == DaysBeforeYear(BaseYear - 1) .. DaysBeforeYear(BaseYear + NumYears + 2)

CalendarTable == [date \in CalendarWindow |-> CalendarFields(date)]

Calendar(date) == IF date \in CalendarWindow THEN CalendarTable[date] ELSE CalendarFields(date)

\* date.getFullYear()
GetFullYear(date) == Calendar(date).year

\* date.getMonth(), 0-based
GetMonth(date) == Calendar(date).month

\* date.getDate()
GetDate(date) == Calendar(date).day

\* date.getDay(): 1970-01-01 was a Thursday
GetDay(date) == (date + 4) % 7

\* Math.abs
Abs(n) == IF n < 0 THEN -n ELSE n

\* Math.round(d / 7): the nearest integer (d / 7 is never a half)
RoundDiv7(d) == (2 * d + 7) \div 14

\* new Date("YYYY-MM-DD"): UTC midnight, which west of UTC is the previous local day
ParseISODate(iso) ==
    MakeDate(iso[1], iso[2] - 1, iso[3]) - (IF tzWest THEN 1 ELSE 0)

-----------------------------------------------------------------------------
(* holidays.js *)

RECURSIVE LastWeekdayScan(_, _, _, _)
LastWeekdayScan(year, month, weekday, date) ==
    IF GetDay(MakeDate(year, month, date)) # weekday
    THEN LastWeekdayScan(year, month, weekday, date - 1)
    ELSE MakeDate(year, month, date)

RECURSIVE NthWeekdayScan(_, _, _, _, _, _)
NthWeekdayScan(year, month, weekday, n, day, count) ==
    IF day > 31 THEN -1
    ELSE LET d == MakeDate(year, month, day)
         IN  IF GetMonth(d) # month THEN -1
             ELSE IF GetDay(d) = weekday
                  THEN (IF count + 1 = n THEN d
                        ELSE NthWeekdayScan(year, month, weekday, n, day + 1, count + 1))
                  ELSE NthWeekdayScan(year, month, weekday, n, day + 1, count)

\* a count of the weekdays that starts on the second day of the month
getNthWeekdayOfMonth_AfterFirstDay(year, month, weekday, n) ==
    IF n = -1
    THEN LastWeekdayScan(year, month, weekday, GetDate(MakeDate(year, month + 1, 0)))
    ELSE NthWeekdayScan(year, month, weekday, n, 2, 0)

\* the n-th (n = -1: the last) given weekday of a month; -1 stands for null
getNthWeekdayOfMonth(year, month, weekday, n) ==
    IF n = -1
    THEN LastWeekdayScan(year, month, weekday, GetDate(MakeDate(year, month + 1, 0)))
    ELSE NthWeekdayScan(year, month, weekday, n, 1, 0)

\* the six standard holidays, in the property order of the object literal
getHolidaysForYear(year) ==
    << [key |-> "newYearsDay",  name |-> "New Year's Day", date |-> MakeDate(year, 0, 1),  type |-> "fixed"],
       [key |-> "memorialDay",  name |-> "Memorial Day",   date |-> getNthWeekdayOfMonth(year, 4, 1, -1), type |-> "floating"],
       [key |-> "july4th",      name |-> "July 4th",       date |-> MakeDate(year, 6, 4),  type |-> "fixed"],
       [key |-> "laborDay",     name |-> "Labor Day",      date |-> getNthWeekdayOfMonth(year, 8, 1, 1),  type |-> "floating"],
       [key |-> "thanksgiving", name |-> "Thanksgiving",   date |-> getNthWeekdayOfMonth(year, 10, 4, 4), type |-> "floating"],
       [key |-> "christmas",    name |-> "Christmas",      date |-> MakeDate(year, 11, 25), type |-> "fixed"] >>

\* the years the model meets
ModelYears == (BaseYear - 1) .. (BaseYear + NumYears + 2)

\* getHolidaysForYear of the years the model meets, computed once
HolidayTable == [year \in ModelYears |-> getHolidaysForYear(year)]

HolidaysForYear(year) == IF year \in ModelYears THEN HolidayTable[year] ELSE getHolidaysForYear(year)

\* the week that starts on the first start day on or after the date
getWeekContainingDate_Following(date, wsd) ==
    LET weekStart == date + ((wsd - GetDay(date) + 7) % 7)
    IN  [start |-> weekStart, end |-> weekStart + 7]

\* a week that always starts on Saturday, whatever the configured start day
getWeekContainingDate_Saturday(date, wsd) ==
    LET weekStart == date - ((GetDay(date) - 6 + 7) % 7)
    IN  [start |-> weekStart, end |-> weekStart + 7]

\* the rental week a date falls into
getWeekContainingDate(date, wsd) ==
    LET daysToSubtract == (GetDay(date) - wsd + 7) % 7
        weekStart == date - daysToSubtract
    IN  [start |-> weekStart, end |-> weekStart + 7]

\* "Mon D": the month and the day of the month, the year is dropped
formatDateShort(date) == <<GetMonth(date), GetDate(date)>>

formatWeekRange(start, end) == formatDateShort(start) \o formatDateShort(end)

\* the relationship label
RelationshipLabel(weeksAway, name) ==
    IF weeksAway = 0
    THEN [n |-> 0, unit |-> "", rel |-> "week", name |-> name]
    ELSE IF weeksAway > 0
    THEN [n |-> weeksAway, unit |-> (IF weeksAway > 1 THEN "weeks" ELSE "week"),
          rel |-> "after", name |-> name]
    ELSE [n |-> Abs(weeksAway), unit |-> (IF Abs(weeksAway) > 1 THEN "weeks" ELSE "week"),
          rel |-> "before", name |-> name]

\* signed week distance of weekStart to the week of a holiday
DiffWeeks(weekStart, holiday, wsd) ==
    LET holidayWeek == getWeekContainingDate(holiday.date, wsd)
        diffDays == weekStart - holidayWeek.start
    IN  RoundDiv7(diffDays)

\* the loop over Object.entries(holidays): st = [idx, minDistance, weeksAway];
\* idx = 0 is nearestHoliday = null and minDistance = Infinity
RECURSIVE NearestScan(_, _, _, _, _)
NearestScan(weekStart, holidays, wsd, i, st) ==
    IF i > Len(holidays) THEN st
    ELSE LET diffWeeks == DiffWeeks(weekStart, holidays[i], wsd)
         IN  IF st.idx = 0 \/ Abs(diffWeeks) < Abs(st.minDistance)
             THEN NearestScan(weekStart, holidays, wsd, i + 1,
                              [idx |-> i, minDistance |-> diffWeeks, weeksAway |-> diffWeeks])
             ELSE NearestScan(weekStart, holidays, wsd, i + 1, st)

\* the scan with <= for <: of anchors at the same distance the last one wins
RECURSIVE NearestScanLast(_, _, _, _, _)
NearestScanLast(weekStart, holidays, wsd, i, st) ==
    IF i > Len(holidays) THEN st
    ELSE LET diffWeeks == DiffWeeks(weekStart, holidays[i], wsd)
         IN  IF st.idx = 0 \/ Abs(diffWeeks) <= Abs(st.minDistance)
             THEN NearestScanLast(weekStart, holidays, wsd, i + 1,
                                  [idx |-> i, minDistance |-> diffWeeks, weeksAway |-> diffWeeks])
             ELSE NearestScanLast(weekStart, holidays, wsd, i + 1, st)

getWeekHolidayRelationship_LastWins(weekStart, holidays, wsd) ==
    LET st == NearestScanLast(weekStart, holidays, wsd, 1,
                              [idx |-> 0, minDistance |-> 0, weeksAway |-> 0])
        nearestHoliday == holidays[st.idx]
    IN  [holiday      |-> nearestHoliday,
         relationship |-> RelationshipLabel(st.weeksAway, nearestHoliday.name),
         weeksAway    |-> st.weeksAway]

getWeekHolidayRelationship(weekStart, holidays, wsd) ==
    LET st == NearestScan(weekStart, holidays, wsd, 1,
                          [idx |-> 0, minDistance |-> 0, weeksAway |-> 0])
        nearestHoliday == holidays[st.idx]
    IN  [holiday      |-> nearestHoliday,
         relationship |-> RelationshipLabel(st.weeksAway, nearestHoliday.name),
         weeksAway    |-> st.weeksAway]

\* "YYYY-MM-DD": the year, the 1-based month and the day
weekKey(date) == <<GetFullYear(date), GetMonth(date) + 1, GetDate(date)>>

parseWeekKey(key) == MakeDate(key[1], key[2] - 1, key[3])

-----------------------------------------------------------------------------
(* weekMapping.js *)

\* a loop that also keeps the week of January 1 when it starts the year before
RECURSIVE GenerateWeeksLoop_KeepFirst(_, _, _)
GenerateWeeksLoop_KeepFirst(current, year, weeks) ==
    IF GetFullYear(current) > year THEN weeks
    ELSE GenerateWeeksLoop_KeepFirst(current + 7, year,
            Append(weeks, [start |-> current, end |-> current + 7, key |-> weekKey(current)]))

RECURSIVE GenerateWeeksLoop(_, _, _)
GenerateWeeksLoop(current, year, weeks) ==
    IF GetFullYear(current) > year THEN weeks
    ELSE GenerateWeeksLoop(current + 7, year,
            IF GetFullYear(current) = year
            THEN Append(weeks, [start |-> current, end |-> current + 7, key |-> weekKey(current)])
            ELSE weeks)

generateWeeksForYear(year, wsd) ==
    LET jan1 == MakeDate(year, 0, 1)
        daysToSubtract == (GetDay(jan1) - wsd + 7) % 7
    IN  GenerateWeeksLoop(jan1 - daysToSubtract, year, <<>>)

\* generateWeeksForYear of the years the model meets, computed once
WeeksTable == [year \in ModelYears |-> [wsd \in 0 .. 6 |-> generateWeeksForYear(year, wsd)]]

WeeksForYear(year, wsd) ==
    IF year \in ModelYears /\ wsd \in 0 .. 6 THEN WeeksTable[year][wsd] ELSE generateWeeksForYear(year, wsd)

\* values of JavaScript: a string (its characters), a number, undefined
Str(s) == [t |-> "str", s |-> s, n |-> 0]
Num(n) == [t |-> "num", s |-> <<>>, n |-> n]
Undefined == [t |-> "undef", s |-> <<>>, n |-> 0]

\* an absent date string (falsy)
NoDate == <<>>

\* target: null
NoTarget == [start |-> -1, end |-> -1, key |-> <<0, 0, 0>>]

\* a range that was never set (undefined)
NoRange == <<>>

\* obj[key] = value on an object kept as its property list: an existing key
\* keeps its place, a new key goes last
PutProperty(props, entry) ==
    IF \E i \in 1 .. Len(props) : props[i].key = entry.key
    THEN [i \in 1 .. Len(props) |-> IF props[i].key = entry.key THEN entry ELSE props[i]]
    ELSE Append(props, entry)

\* anchors.filter(a => a.enabled)
RECURSIVE EnabledAnchors(_)
EnabledAnchors(as) ==
    IF as = <<>> THEN <<>>
    ELSE IF Head(as).enabled THEN <<Head(as)>> \o EnabledAnchors(Tail(as))
    ELSE EnabledAnchors(Tail(as))

\* allSourceHolidays / allTargetHolidays after the forEach over the enabled
\* anchors; which = "source" | "target"
RECURSIVE AddAnchors(_, _, _)
AddAnchors(holidays, as, which) ==
    IF as = <<>> THEN holidays
    ELSE LET a == Head(as)
             iso == IF which = "source" THEN a.sourceDate ELSE a.targetDate
         IN  AddAnchors(IF iso # NoDate
                        THEN PutProperty(holidays, [key |-> a.id, name |-> a.name,
                                                    date |-> ParseISODate(iso), type |-> a.type])
                        ELSE holidays,
                        Tail(as), which)

\* the place of obj[key] in the property list; 0 stands for undefined
PropertyIndex(props, key) ==
    IF \E i \in 1 .. Len(props) : props[i].key = key
    THEN CHOOSE i \in 1 .. Len(props) : props[i].key = key
    ELSE 0

\* the start date of a source week: a serialized record (start is a string)
\* is parsed from its key, a structured one is built from startDate
ResolveSourceStart(sourceWeek) ==
    IF sourceWeek.serialized
    THEN parseWeekKey(sourceWeek.key)
    ELSE MakeDate(sourceWeek.startDate[1], sourceWeek.startDate[2], sourceWeek.startDate[3])

\* a mapper body that puts every week on the week of its anchor, without the offset
MapOneWeek_OnAnchorWeek(sourceWeek, allSourceHolidays, allTargetHolidays, wsd) ==
    LET sourceStart == ResolveSourceStart(sourceWeek)
        relationship == getWeekHolidayRelationship(sourceStart, allSourceHolidays, wsd)
        ti == PropertyIndex(allTargetHolidays, relationship.holiday.key)
    IN  IF ti = 0
        THEN [source        |-> sourceWeek,
              sourceStart   |-> sourceStart,
              sourceRange   |-> NoRange,
              target        |-> NoTarget,
              targetRange   |-> NoRange,
              relationship  |-> relationship.relationship,
              holidayKey    |-> relationship.holiday.key,
              weeksAway     |-> relationship.weeksAway,
              proposedPrice |-> Undefined,
              error         |-> "No matching anchor in target year",
              isGapFill     |-> FALSE]
        ELSE LET targetHolidayWeek == getWeekContainingDate(allTargetHolidays[ti].date, wsd)
                 targetWeekStart == targetHolidayWeek.start
                 targetWeekEnd == targetWeekStart + 7
             IN  [source        |-> sourceWeek,
                  sourceStart   |-> sourceStart,
                  sourceRange   |-> formatWeekRange(sourceStart, sourceStart + 7),
                  target        |-> [start |-> targetWeekStart, end |-> targetWeekEnd,
                                     key |-> weekKey(targetWeekStart)],
                  targetRange   |-> formatWeekRange(targetWeekStart, targetWeekEnd),
                  relationship  |-> relationship.relationship,
                  holidayKey    |-> relationship.holiday.key,
                  weeksAway     |-> relationship.weeksAway,
                  proposedPrice |-> sourceWeek.price,
                  error         |-> "",
                  isGapFill     |-> FALSE]

\* the body of sourceWeeks.forEach: the mapping pushed for one source week
MapOneWeek(sourceWeek, allSourceHolidays, allTargetHolidays, wsd) ==
    LET sourceStart == ResolveSourceStart(sourceWeek)
        relationship == getWeekHolidayRelationship(sourceStart, allSourceHolidays, wsd)
        ti == PropertyIndex(allTargetHolidays, relationship.holiday.key)
    IN  IF ti = 0
        THEN [source        |-> sourceWeek,
              sourceStart   |-> sourceStart,
              sourceRange   |-> NoRange,
              target        |-> NoTarget,
              targetRange   |-> NoRange,
              relationship  |-> relationship.relationship,
              holidayKey    |-> relationship.holiday.key,
              weeksAway     |-> relationship.weeksAway,
              proposedPrice |-> Undefined,
              error         |-> "No matching anchor in target year",
              isGapFill     |-> FALSE]
        ELSE LET targetHolidayWeek == getWeekContainingDate(allTargetHolidays[ti].date, wsd)
                 targetWeekStart == targetHolidayWeek.start + (relationship.weeksAway * 7)
                 targetWeekEnd == targetWeekStart + 7
             IN  [source        |-> sourceWeek,
                  sourceStart   |-> sourceStart,
                  sourceRange   |-> formatWeekRange(sourceStart, sourceStart + 7),
                  target        |-> [start |-> targetWeekStart, end |-> targetWeekEnd,
                                     key |-> weekKey(targetWeekStart)],
                  targetRange   |-> formatWeekRange(targetWeekStart, targetWeekEnd),
                  relationship  |-> relationship.relationship,
                  holidayKey    |-> relationship.holiday.key,
                  weeksAway     |-> relationship.weeksAway,
                  proposedPrice |-> sourceWeek.price,
                  error         |-> "",
                  isGapFill     |-> FALSE]

AllSourceHolidays(sy, as) == AddAnchors(HolidaysForYear(sy), EnabledAnchors(as), "source")

\* target anchors that fall back on the source date of an anchor without a target date
AllTargetHolidays_SourceFallback(ty, as) ==
    AddAnchors(AddAnchors(HolidaysForYear(ty), EnabledAnchors(as), "source"), EnabledAnchors(as), "target")

\* target anchors taken from the year before the one asked for
AllTargetHolidays_WrongYear(ty, as) == AddAnchors(HolidaysForYear(ty - 1), EnabledAnchors(as), "target")

AllTargetHolidays(ty, as) == AddAnchors(HolidaysForYear(ty), EnabledAnchors(as), "target")

\* a mapper that skips the source weeks whose anchor has no target date
mapWeeksByHolidays_SkipUnmatched(weeks, sy, ty, as, wsd) ==
    LET allSourceHolidays == AllSourceHolidays(sy, as)
        allTargetHolidays == AllTargetHolidays(ty, as)
    IN  SelectSeq([i \in 1 .. Len(weeks) |-> MapOneWeek(weeks[i], allSourceHolidays, allTargetHolidays, wsd)],
                  LAMBDA m : m.target # NoTarget)

\* a mapper that drops the currency sign and the separators of a price string
mapWeeksByHolidays_BareAmounts(weeks, sy, ty, as, wsd) ==
    LET allSourceHolidays == AllSourceHolidays(sy, as)
        allTargetHolidays == AllTargetHolidays(ty, as)
        Bare(price) == IF price.t = "str"
                       THEN Str(SelectSeq(price.s, LAMBDA c : c \notin {"$", ","}))
                       ELSE price
    IN  [i \in 1 .. Len(weeks) |->
            LET m == MapOneWeek(weeks[i], allSourceHolidays, allTargetHolidays, wsd)
            IN  [m EXCEPT !.proposedPrice = Bare(m.proposedPrice)]]

mapWeeksByHolidays(weeks, sy, ty, as, wsd) ==
    LET allSourceHolidays == AllSourceHolidays(sy, as)
        allTargetHolidays == AllTargetHolidays(ty, as)
    IN  [i \in 1 .. Len(weeks) |-> MapOneWeek(weeks[i], allSourceHolidays, allTargetHolidays, wsd)]

\* a source week record without weekKey and key (undefined)
NoKey == <<>>

\* a Date object; the time of an Invalid Date is NaN
DateObject(day) == [valid |-> TRUE, day |-> day]
InvalidDate == [valid |-> FALSE, day |-> 0]

\* how a call ends: with a value, or with an uncaught TypeError
Completed(value) == [threw |-> FALSE, value |-> value]
Thrown == [threw |-> TRUE, value |-> <<>>]

\* sourceStart of lines 80-84 for any record: parseWeekKey(undefined) throws on
\* undefined.split; new Date(undefined, undefined, undefined) is an Invalid Date
SourceStartOutcome(sourceWeek) ==
    IF sourceWeek.serialized
    THEN IF sourceWeek.key = NoKey THEN Thrown
         ELSE Completed(DateObject(parseWeekKey(sourceWeek.key)))
    ELSE IF sourceWeek.startDate = NoDate THEN Completed(InvalidDate)
         ELSE Completed(DateObject(ResolveSourceStart(sourceWeek)))

\* the loop of getWeekHolidayRelationship for a Date object: with a NaN time
\* diffWeeks is NaN for every holiday, Math.abs(NaN) < Math.abs(minDistance)
\* never holds and nearestHoliday stays null (idx = 0)
NearestOrNull(weekStart, holidays, wsd) ==
    IF weekStart.valid
    THEN NearestScan(weekStart.day, holidays, wsd, 1, [idx |-> 0, minDistance |-> 0, weeksAway |-> 0])
    ELSE [idx |-> 0, minDistance |-> 0, weeksAway |-> 0]

\* the forEach body throws: in parseWeekKey, or at nearestHoliday.name of a
\* null nearestHoliday (weeksAway is still 0, so the first branch is taken)
WeekThrows(sourceWeek, allSourceHolidays, wsd) ==
    LET sourceStart == SourceStartOutcome(sourceWeek)
    IN  \/ sourceStart.threw
        \/ NearestOrNull(sourceStart.value, allSourceHolidays, wsd).idx = 0

\* a call of mapWeeksByHolidays with any records: an exception of the forEach
\* body is not caught and ends the call
mapWeeksByHolidaysOutcome(weeks, sy, ty, as, wsd) ==
    IF \E i \in 1 .. Len(weeks) : WeekThrows(weeks[i], AllSourceHolidays(sy, as), wsd)
    THEN Thrown
    ELSE Completed(mapWeeksByHolidays(weeks, sy, ty, as, wsd))

-----------------------------------------------------------------------------
(* weekMapping.js: prices *)

\* truthiness of a JavaScript value
Truthy(v) ==
    IF v.t = "str" THEN v.s # <<>>
    ELSE IF v.t = "num" THEN v.n # 0
    ELSE FALSE

\* a || b
OrElse(a, b) == IF Truthy(a) THEN a ELSE b

DigitChars == <<"0", "1", "2", "3", "4", "5", "6", "7", "8", "9">>

IsDigit(c) == \E i \in 1 .. 10 : DigitChars[i] = c

DigitValue(c) == (CHOOSE i \in 1 .. 10 : DigitChars[i] = c) - 1

\* the decimal digits of a natural number
RECURSIVE NatChars(_)
NatChars(n) ==
    IF n < 10 THEN <<DigitChars[n + 1]>>
    ELSE Append(NatChars(n \div 10), DigitChars[(n % 10) + 1])

\* String(n) of an integer
NumberToChars(n) == IF n < 0 THEN <<"-">> \o NatChars(-n) ELSE NatChars(n)

\* String(value)
ToChars(v) ==
    IF v.t = "str" THEN v.s
    ELSE IF v.t = "num" THEN NumberToChars(v.n)
    ELSE <<"u", "n", "d", "e", "f", "i", "n", "e", "d">>

\* .replace(/[$,]/g, '')
StripCurrency(s) == SelectSeq(s, LAMBDA c : c \notin {"$", ","})

RECURSIVE SkipSpaces(_)
SkipSpaces(s) == IF s # <<>> /\ Head(s) = " " THEN SkipSpaces(Tail(s)) ELSE s

\* the value of the leading run of digits; acc.seen tells whether there is one
RECURSIVE LeadingDigits(_, _)
LeadingDigits(s, acc) ==
    IF s # <<>> /\ IsDigit(Head(s))
    THEN LeadingDigits(Tail(s), [seen |-> TRUE, v |-> acc.v * 10 + DigitValue(Head(s))])
    ELSE acc

NaN == [nan |-> TRUE, v |-> 0]

Number(n) == [nan |-> FALSE, v |-> n]

\* parseInt(chars): leading white space, an optional sign, then digits
parseInt(chars) ==
    LET s1 == SkipSpaces(chars)
        neg == s1 # <<>> /\ Head(s1) = "-"
        s2 == IF s1 # <<>> /\ Head(s1) \in {"-", "+"} THEN Tail(s1) ELSE s1
        d == LeadingDigits(s2, [seen |-> FALSE, v |-> 0])
    IN  IF d.seen THEN Number(IF neg THEN -d.v ELSE d.v) ELSE NaN

\* parsePrice: a falsy input and a parsed 0 both give NaN
parsePrice(priceStr) ==
    IF ~Truthy(priceStr) THEN NaN
    ELSE LET r == parseInt(StripCurrency(ToChars(priceStr)))
         IN  IF r.nan \/ r.v = 0 THEN NaN ELSE r

\* n.toLocaleString() in the en-US locale: groups of three digits
RECURSIVE GroupedChars(_)
GroupedChars(n) ==
    IF n < 1000 THEN NatChars(n)
    ELSE LET r == n % 1000
         IN  GroupedChars(n \div 1000) \o <<",">> \o
             <<DigitChars[(r \div 100) + 1], DigitChars[((r \div 10) % 10) + 1], DigitChars[(r % 10) + 1]>>

toLocaleString(n) == IF n < 0 THEN <<"-">> \o GroupedChars(-n) ELSE GroupedChars(n)

\* an interpolation that drops the half of an odd sum
interpolatePrice_Truncated(price1, price2) ==
    LET p1 == parsePrice(price1)
        p2 == parsePrice(price2)
    IN  IF p1.nan \/ p2.nan THEN price1
        ELSE Str(<<"$">> \o toLocaleString((p1.v + p2.v) \div 2))

\* interpolatePrice: Math.round((p1 + p2) / 2) rounds a half up
interpolatePrice(price1, price2) ==
    LET p1 == parsePrice(price1)
        p2 == parsePrice(price2)
    IN  IF p1.nan \/ p2.nan THEN price1
        ELSE Str(<<"$">> \o toLocaleString((p1.v + p2.v + 1) \div 2))


-----------------------------------------------------------------------------
(* weekMapping.js: detectConflicts *)

\* the characters of the option values 'custom' and 'interpolate'
Custom == Str(<<"c", "u", "s", "t", "o", "m">>)
Interpolate == Str(<<"i", "n", "t", "e", "r", "p", "o", "l", "a", "t", "e">>)
Keep == Str(<<"k", "e", "e", "p">>)
Adjust == Str(<<"a", "d", "j", "u", "s", "t">>)

\* conflict.resolution = null
NoResolution ==
    [null |-> TRUE, value |-> Undefined, customPrice |-> Undefined,
     sourceIndex |-> Undefined, interpolatedPrice |-> Undefined]

NoLabel == [n |-> 0, unit |-> "", rel |-> "", name |-> ""]

\* nearestBefore / nearestAfter = null
NoNeighbour == [null |-> TRUE, range |-> NoRange, price |-> Undefined]

Option(text, range, price, value, sourceIndex, interpolatedPrice) ==
    [label |-> [text |-> text, range |-> range, price |-> price],
     value |-> value, sourceIndex |-> sourceIndex, interpolatedPrice |-> interpolatedPrice]

\* the fields every conflict starts with: resolved: false, resolution: null
BlankConflict ==
    [type |-> "", targetWeek |-> <<0, 0, 0>>, targetRange |-> NoRange, mappings |-> <<>>,
     relationship |-> NoLabel, nearestBefore |-> NoNeighbour, nearestAfter |-> NoNeighbour,
     sourceRange |-> NoRange, price |-> Undefined, sourcePattern |-> "", targetPattern |-> "",
     description |-> <<>>, options |-> <<>>, resolved |-> FALSE, resolution |-> NoResolution]

HasTarget(m) == m.target # NoTarget

\* the keys of targetKeyToMappings, in insertion order: the forEach over the
\* mappings at places first .. last adds the target keys not yet in keys.
\* The range is halved, and the first half is evaluated (its length is read)
\* before the second is entered, so that long lists are scanned without deep
\* nesting.
RECURSIVE TargetKeyOrder(_, _, _, _)
TargetKeyOrder(ms, first, last, keys) ==
    IF first > last THEN keys
    ELSE IF first = last
    THEN LET m == ms[first]
         IN  IF HasTarget(m) /\ ~(\E i \in 1 .. Len(keys) : keys[i] = m.target.key)
             THEN Append(keys, m.target.key) ELSE keys
    ELSE LET mid == (first + last) \div 2
             front == TargetKeyOrder(ms, first, mid, keys)
         IN  IF Len(front) >= 0 THEN TargetKeyOrder(ms, mid + 1, last, front) ELSE front

\* targetKeyToMappings.get(key)
MappingsOfKey(ms, key) == SelectSeq(ms, LAMBDA m : HasTarget(m) /\ m.target.key = key)

\* a key set that leaves out the keys shared by several mappings
MappedTargetKeys_Unshared(ms) ==
    {ms[i].target.key : i \in {j \in 1 .. Len(ms) :
        /\ HasTarget(ms[j])
        /\ \A k \in 1 .. Len(ms) : (HasTarget(ms[k]) /\ ms[k].target.key = ms[j].target.key) => k = j}}

\* mappedTargetKeys
MappedTargetKeys(ms) == {ms[i].target.key : i \in {j \in 1 .. Len(ms) : HasTarget(ms[j])}}

\* a collision record whose options count the contributors from 1
CollisionConflict_OneBasedIndex(targetKey, maps) ==
    [BlankConflict EXCEPT
        !.type = "collision",
        !.targetWeek = targetKey,
        !.targetRange = maps[1].targetRange,
        !.mappings = [i \in 1 .. Len(maps) |->
                        [sourceRange |-> maps[i].sourceRange, price |-> maps[i].source.price,
                         relationship |-> maps[i].relationship]],
        !.description = [i \in 1 .. Len(maps) |-> maps[i].sourceRange] \o <<maps[1].targetRange>>,
        !.options = [i \in 1 .. Len(maps) |->
                        Option("Use source price", maps[i].sourceRange, maps[i].source.price,
                               maps[i].source.price, Num(i), Undefined)]
                    \o <<Option("Enter custom price", NoRange, Undefined, Custom, Num(-1), Undefined)>>]

CollisionConflict(targetKey, maps) ==
    [BlankConflict EXCEPT
        !.type = "collision",
        !.targetWeek = targetKey,
        !.targetRange = maps[1].targetRange,
        !.mappings = [i \in 1 .. Len(maps) |->
                        [sourceRange |-> maps[i].sourceRange, price |-> maps[i].source.price,
                         relationship |-> maps[i].relationship]],
        !.description = [i \in 1 .. Len(maps) |-> maps[i].sourceRange] \o <<maps[1].targetRange>>,
        !.options = [i \in 1 .. Len(maps) |->
                        Option("Use source price", maps[i].sourceRange, maps[i].source.price,
                               maps[i].source.price, Num(i - 1), Undefined)]
                    \o <<Option("Enter custom price", NoRange, Undefined, Custom, Num(-1), Undefined)>>]

\* targetKeyToMappings.forEach: a conflict for every key with several mappings
CollisionScan(ms, keys) ==
    LET shared == SelectSeq(keys, LAMBDA key : Len(MappingsOfKey(ms, key)) > 1)
    IN  [k \in 1 .. Len(shared) |-> CollisionConflict(shared[k], MappingsOfKey(ms, shared[k]))]

CollisionConflicts(ms) == CollisionScan(ms, TargetKeyOrder(ms, 1, Len(ms), <<>>))

\* a scan that keeps the first mapped week it meets on either side
RECURSIVE NearestMapped_FirstMet(_, _, _, _, _)
NearestMapped_FirstMet(ms, targetTime, first, last, near) ==
    IF first > last THEN near
    ELSE IF first = last
    THEN IF ~HasTarget(ms[first]) THEN near
         ELSE LET mTime == ms[first].target.start
              IN  [before |-> IF mTime < targetTime /\ near.before = 0 THEN first ELSE near.before,
                   after  |-> IF mTime > targetTime /\ near.after = 0 THEN first ELSE near.after]
    ELSE LET mid == (first + last) \div 2
             front == NearestMapped_FirstMet(ms, targetTime, first, mid, near)
         IN  IF front.before >= 0 THEN NearestMapped_FirstMet(ms, targetTime, mid + 1, last, front)
             ELSE front

\* the forEach that finds nearestBefore / nearestAfter over the mappings at
\* places first .. last: near.before and near.after are places in ms, 0
\* stands for null.  The range is halved, and the first half is evaluated
\* before the second is entered, so that long lists are scanned without deep
\* nesting.
RECURSIVE NearestMapped(_, _, _, _, _)
NearestMapped(ms, targetTime, first, last, near) ==
    IF first > last THEN near
    ELSE IF first = last
    THEN IF ~HasTarget(ms[first]) THEN near
         ELSE LET mTime == ms[first].target.start
                  nb == near.before
                  na == near.after
              IN  [before |-> IF mTime < targetTime /\ (nb = 0 \/ mTime > ms[nb].target.start)
                              THEN first ELSE nb,
                   after  |-> IF mTime > targetTime /\ (na = 0 \/ mTime < ms[na].target.start)
                              THEN first ELSE na]
    ELSE LET mid == (first + last) \div 2
             front == NearestMapped(ms, targetTime, first, mid, near)
         IN  IF front.before >= 0 THEN NearestMapped(ms, targetTime, mid + 1, last, front) ELSE front

Neighbour(ms, i) ==
    IF i = 0 THEN NoNeighbour
    ELSE [null |-> FALSE, range |-> ms[i].targetRange, price |-> ms[i].proposedPrice]

GapOptions(ms, nb, na) ==
    (IF nb # 0
     THEN <<Option("Use previous week's price", NoRange, ms[nb].proposedPrice,
                   ms[nb].proposedPrice, Undefined, Undefined)>> ELSE <<>>)
    \o (IF na # 0
        THEN <<Option("Use next week's price", NoRange, ms[na].proposedPrice,
                      ms[na].proposedPrice, Undefined, Undefined)>> ELSE <<>>)
    \o (IF nb # 0 /\ na # 0
        THEN <<Option("Interpolate between neighbors", NoRange, Undefined, Interpolate, Undefined,
                      interpolatePrice(ms[nb].proposedPrice, ms[na].proposedPrice))>> ELSE <<>>)
    \o <<Option("Enter custom price", NoRange, Undefined, Custom, Undefined, Undefined)>>

GapConflict(ms, targetWeek, targetHolidays, wsd) ==
    LET relationship == getWeekHolidayRelationship(targetWeek.start, targetHolidays, wsd)
        near == NearestMapped(ms, targetWeek.start, 1, Len(ms), [before |-> 0, after |-> 0])
        range == formatWeekRange(targetWeek.start, targetWeek.end)
    IN  [BlankConflict EXCEPT
            !.type = "gap",
            !.targetWeek = targetWeek.key,
            !.targetRange = range,
            !.relationship = relationship.relationship,
            !.nearestBefore = Neighbour(ms, near.before),
            !.nearestAfter = Neighbour(ms, near.after),
            !.description = <<range>>,
            !.options = GapOptions(ms, near.before, near.after)]

\* a season that ends with October: month > 9 is skipped
InGapSeason_ThroughOctober(month) == ~(month < 3 \/ month > 9)

\* the months of the rental season: month < 3 || month > 10 is skipped
InGapSeason(month) == ~(month < 3 \/ month > 10)

\* allTargetWeeks.forEach: a conflict for every season week that is not mapped
GapScan(ms, weeks, mapped, targetHolidays, wsd) ==
    LET open == SelectSeq(weeks, LAMBDA w : InGapSeason(GetMonth(w.start)) /\ w.key \notin mapped)
    IN  [k \in 1 .. Len(open) |-> GapConflict(ms, open[k], targetHolidays, wsd)]

GapConflicts(ms, ty, wsd) ==
    GapScan(ms, WeeksForYear(ty, wsd), MappedTargetKeys(ms), HolidaysForYear(ty), wsd)

\* an insertion that puts a mapping before the ones of equal start
RECURSIVE InsertByStart_BeforeEquals(_, _)
InsertByStart_BeforeEquals(sorted, m) ==
    IF sorted = <<>> THEN <<m>>
    ELSE IF sorted[Len(sorted)].target.start < m.target.start THEN Append(sorted, m)
    ELSE Append(InsertByStart_BeforeEquals(SubSeq(sorted, 1, Len(sorted) - 1), m), sorted[Len(sorted)])

\* [...list].sort((a, b) => a.target.start - b.target.start): stable
RECURSIVE InsertByStart(_, _)
InsertByStart(sorted, m) ==
    IF sorted = <<>> THEN <<m>>
    ELSE IF sorted[Len(sorted)].target.start <= m.target.start THEN Append(sorted, m)
    ELSE Append(InsertByStart(SubSeq(sorted, 1, Len(sorted) - 1), m), sorted[Len(sorted)])

\* the elements of ms at places first .. last inserted one after the other
\* into sorted; the range is halved, and the first half is evaluated before
\* the second is entered, so that long lists are sorted without deep nesting
RECURSIVE InsertAll(_, _, _, _)
InsertAll(sorted, ms, first, last) ==
    IF first > last THEN sorted
    ELSE IF first = last THEN InsertByStart(sorted, ms[first])
    ELSE LET mid == (first + last) \div 2
             front == InsertAll(sorted, ms, first, mid)
         IN  IF Len(front) >= 0 THEN InsertAll(front, ms, mid + 1, last) ELSE front

SortByTargetStart(ms) == InsertAll(<<>>, ms, 1, Len(ms))

\* the policy threshold of the reversal test, in dollars
ReversalThreshold == 100

\* price - (a + b) / 2 > 100, without the half: 2 * price - (a + b) > 200
AboveNeighbours(price, a, b) == 2 * price - (a + b) > 2 * ReversalThreshold
BelowNeighbours(price, a, b) == 2 * price - (a + b) < -(2 * ReversalThreshold)

\* sortedMappings.findIndex(m => m.target.key === targetKey), 1-based; 0 stands for -1
FindIndexOfKey(sorted, targetKey) ==
    IF \E i \in 1 .. Len(sorted) : sorted[i].target.key = targetKey
    THEN CHOOSE i \in 1 .. Len(sorted) :
            /\ sorted[i].target.key = targetKey
            /\ \A j \in 1 .. (i - 1) : sorted[j].target.key # targetKey
    ELSE 0

ReversalConflict(mapping, wasAbove, isAbove) ==
    [BlankConflict EXCEPT
        !.type = "strategy_reversal",
        !.sourceRange = mapping.sourceRange,
        !.targetRange = mapping.targetRange,
        !.price = mapping.proposedPrice,
        !.sourcePattern = IF wasAbove THEN "higher" ELSE "lower",
        !.targetPattern = IF isAbove THEN "higher" ELSE "lower",
        !.description = <<mapping.sourceRange, mapping.targetRange>>,
        !.options = <<Option("Keep as mapped (intentional change)", NoRange, Undefined, Keep, Undefined, Undefined),
                      Option("Adjust to maintain relative position", NoRange, Undefined, Adjust, Undefined, Undefined)>>]

\* a reversal test whose comparison on the target side is turned round
ReversalAt_TargetSideInverted(ms, idx) ==
    LET mapping == ms[idx]
        currentPrice == parsePrice(mapping.proposedPrice)
    IN  IF ~HasTarget(mapping) \/ ~Truthy(mapping.proposedPrice) \/ currentPrice.nan THEN <<>>
        ELSE IF idx - 1 < 1 \/ idx + 1 > Len(ms) THEN <<>>
        ELSE LET sourcePrevPrice == parsePrice(OrElse(ms[idx - 1].source.price, ms[idx - 1].proposedPrice))
                 sourceNextPrice == parsePrice(OrElse(ms[idx + 1].source.price, ms[idx + 1].proposedPrice))
             IN  IF sourcePrevPrice.nan \/ sourceNextPrice.nan THEN <<>>
                 ELSE LET wasAbove == AboveNeighbours(currentPrice.v, sourcePrevPrice.v, sourceNextPrice.v)
                          wasBelow == BelowNeighbours(currentPrice.v, sourcePrevPrice.v, sourceNextPrice.v)
                          sortedMappings == SortByTargetStart(SelectSeq(ms, HasTarget))
                          targetIdx == FindIndexOfKey(sortedMappings, mapping.target.key)
                      IN  IF ~wasAbove /\ ~wasBelow THEN <<>>
                          ELSE IF targetIdx <= 1 \/ targetIdx >= Len(sortedMappings) THEN <<>>
                          ELSE LET targetPrevPrice == parsePrice(sortedMappings[targetIdx - 1].proposedPrice)
                                   targetNextPrice == parsePrice(sortedMappings[targetIdx + 1].proposedPrice)
                               IN  IF targetPrevPrice.nan \/ targetNextPrice.nan THEN <<>>
                                   ELSE LET isAbove == BelowNeighbours(currentPrice.v, targetPrevPrice.v, targetNextPrice.v)
                                            isBelow == AboveNeighbours(currentPrice.v, targetPrevPrice.v, targetNextPrice.v)
                                        IN  IF (wasAbove /\ isBelow) \/ (wasBelow /\ isAbove)
                                            THEN <<ReversalConflict(mapping, wasAbove, isAbove)>>
                                            ELSE <<>>

\* the body of the strategy-reversal forEach for the mapping at place idx:
\* the conflicts it pushes (none or one)
ReversalAt(ms, idx) ==
    LET mapping == ms[idx]
        currentPrice == parsePrice(mapping.proposedPrice)
    IN  IF ~HasTarget(mapping) \/ ~Truthy(mapping.proposedPrice) \/ currentPrice.nan THEN <<>>
        ELSE IF idx - 1 < 1 \/ idx + 1 > Len(ms) THEN <<>>
        ELSE LET sourcePrevPrice == parsePrice(OrElse(ms[idx - 1].source.price, ms[idx - 1].proposedPrice))
                 sourceNextPrice == parsePrice(OrElse(ms[idx + 1].source.price, ms[idx + 1].proposedPrice))
             IN  IF sourcePrevPrice.nan \/ sourceNextPrice.nan THEN <<>>
                 ELSE LET wasAbove == AboveNeighbours(currentPrice.v, sourcePrevPrice.v, sourceNextPrice.v)
                          wasBelow == BelowNeighbours(currentPrice.v, sourcePrevPrice.v, sourceNextPrice.v)
                          sortedMappings == SortByTargetStart(SelectSeq(ms, HasTarget))
                          targetIdx == FindIndexOfKey(sortedMappings, mapping.target.key)
                      IN  IF ~wasAbove /\ ~wasBelow THEN <<>>
                          ELSE IF targetIdx <= 1 \/ targetIdx >= Len(sortedMappings) THEN <<>>
                          ELSE LET targetPrevPrice == parsePrice(sortedMappings[targetIdx - 1].proposedPrice)
                                   targetNextPrice == parsePrice(sortedMappings[targetIdx + 1].proposedPrice)
                               IN  IF targetPrevPrice.nan \/ targetNextPrice.nan THEN <<>>
                                   ELSE LET isAbove == AboveNeighbours(currentPrice.v, targetPrevPrice.v, targetNextPrice.v)
                                            isBelow == BelowNeighbours(currentPrice.v, targetPrevPrice.v, targetNextPrice.v)
                                        IN  IF (wasAbove /\ isBelow) \/ (wasBelow /\ isAbove)
                                            THEN <<ReversalConflict(mapping, wasAbove, isAbove)>>
                                            ELSE <<>>

\* mappings.forEach over the places first .. last, in order; the range is
\* halved so that long lists are scanned without deep nesting
RECURSIVE ReversalScan(_, _, _)
ReversalScan(ms, first, last) ==
    IF first > last THEN <<>>
    ELSE IF first = last THEN ReversalAt(ms, first)
    ELSE LET mid == (first + last) \div 2
         IN  ReversalScan(ms, first, mid) \o ReversalScan(ms, mid + 1, last)

ReversalConflicts(ms) == ReversalScan(ms, 1, Len(ms))

\* a detector that reports the gaps before the collisions
detectConflicts_GapsFirst(ms, ty, wsd) ==
    GapConflicts(ms, ty, wsd) \o CollisionConflicts(ms) \o ReversalConflicts(ms)

detectConflicts(ms, ty, wsd) ==
    CollisionConflicts(ms) \o GapConflicts(ms, ty, wsd) \o ReversalConflicts(ms)

\* detectConflicts ends with a TypeError: a collision group reads
\* m.source.price of every member, and source is null for a gap fill
detectConflictsThrows(ms) ==
    \E i, j \in 1 .. Len(ms) :
        /\ i # j
        /\ HasTarget(ms[i]) /\ HasTarget(ms[j])
        /\ ms[i].target.key = ms[j].target.key
        /\ ms[i].isGapFill


-----------------------------------------------------------------------------
(* weekMapping.js: applyResolutions *)

\* source: null
NoSource == [serialized |-> FALSE, key |-> <<0, 0, 0>>, startDate |-> <<0, 0, 0>>, price |-> Undefined]

\* sourceRange: 'N/A (gap fill)'
GapFillRange == <<-1, -1, -1, -1>>

\* conflict.mappings.findIndex(m => m.sourceRange === range), 0-based, -1 when absent
FindIndexOfRange(contributors, range) ==
    IF \E i \in 1 .. Len(contributors) : contributors[i].sourceRange = range
    THEN (CHOOSE i \in 1 .. Len(contributors) :
            /\ contributors[i].sourceRange = range
            /\ \A j \in 1 .. (i - 1) : contributors[j].sourceRange # range) - 1
    ELSE -1

\* list.splice(i, 1)
Splice(list, i) == SubSeq(list, 1, i - 1) \o SubSeq(list, i + 1, Len(list))

\* The collision loop, for i = list.length - 1 down to 0 (here Len(list) down
\* to 1).  st.objs are the mapping objects, shared with the caller's list and
\* written in place; st.list is resolvedMappings, the places of its elements
\* in st.objs; st.kept is the flag.
RECURSIVE CollisionLoop(_, _, _)
CollisionLoop(conflict, i, st) ==
    IF i < 1 THEN st
    ELSE LET o == st.list[i]
             obj == st.objs[o]
             res == conflict.resolution
         IN  IF ~(HasTarget(obj) /\ obj.target.key = conflict.targetWeek)
             THEN CollisionLoop(conflict, i - 1, st)
             ELSE IF ~st.kept /\ res.sourceIndex # Undefined
             THEN IF res.sourceIndex = Num(FindIndexOfRange(conflict.mappings, obj.sourceRange))
                  THEN CollisionLoop(conflict, i - 1,
                          [st EXCEPT !.objs[o].proposedPrice = res.value, !.kept = TRUE])
                  ELSE CollisionLoop(conflict, i - 1, [st EXCEPT !.list = Splice(st.list, i)])
             ELSE IF res.value = Custom
             THEN CollisionLoop(conflict, i - 1,
                     [st EXCEPT !.objs[o].proposedPrice = res.customPrice, !.kept = TRUE])
             ELSE CollisionLoop(conflict, i - 1, st)

\* a gap fill that takes resolution.value as the price whatever was chosen
GapFill_RawValue(conflict) ==
    LET targetStart == parseWeekKey(conflict.targetWeek)
    IN  [source        |-> NoSource,
         sourceStart   |-> -1,
         sourceRange   |-> GapFillRange,
         target        |-> [start |-> targetStart, end |-> targetStart + 7, key |-> conflict.targetWeek],
         targetRange   |-> conflict.targetRange,
         relationship  |-> conflict.relationship,
         holidayKey    |-> "",
         weeksAway     |-> 0,
         proposedPrice |-> conflict.resolution.value,
         error         |-> "",
         isGapFill     |-> TRUE]

\* the week pushed for a resolved gap
GapFill(conflict) ==
    LET targetStart == parseWeekKey(conflict.targetWeek)
        res == conflict.resolution
        price == IF res.value = Interpolate THEN res.interpolatedPrice
                 ELSE IF res.value = Custom THEN res.customPrice
                 ELSE res.value
    IN  [source        |-> NoSource,
         sourceStart   |-> -1,
         sourceRange   |-> GapFillRange,
         target        |-> [start |-> targetStart, end |-> targetStart + 7, key |-> conflict.targetWeek],
         targetRange   |-> conflict.targetRange,
         relationship  |-> conflict.relationship,
         holidayKey    |-> "",
         weeksAway     |-> 0,
         proposedPrice |-> price,
         error         |-> "",
         isGapFill     |-> TRUE]

\* a body that settles a conflict nobody resolved by its first option
ApplyOne_DefaultFirstOption(conflict, st) ==
    LET first == conflict.options[1]
        settled == IF ~conflict.resolved \/ conflict.resolution.null
                   THEN [conflict EXCEPT !.resolved = TRUE,
                                         !.resolution = [null |-> FALSE, value |-> first.value,
                                                         customPrice |-> Undefined,
                                                         sourceIndex |-> first.sourceIndex,
                                                         interpolatedPrice |-> first.interpolatedPrice]]
                   ELSE conflict
    IN  IF settled.type = "collision"
        THEN [CollisionLoop(settled, Len(st.list), [st EXCEPT !.kept = FALSE]) EXCEPT !.kept = FALSE]
        ELSE IF settled.type = "gap"
        THEN [st EXCEPT !.additionalWeeks = Append(st.additionalWeeks, GapFill(settled))]
        ELSE st

\* a body that acts on a resolved reversal: it takes the flagged week out
ApplyOne_ReversalRemovesWeek(conflict, st) ==
    IF ~conflict.resolved \/ conflict.resolution.null THEN st
    ELSE IF conflict.type = "collision"
    THEN [CollisionLoop(conflict, Len(st.list), [st EXCEPT !.kept = FALSE]) EXCEPT !.kept = FALSE]
    ELSE IF conflict.type = "gap"
    THEN [st EXCEPT !.additionalWeeks = Append(st.additionalWeeks, GapFill(conflict))]
    ELSE [st EXCEPT !.list = SelectSeq(st.list, LAMBDA o : st.objs[o].targetRange # conflict.targetRange)]

\* the body of conflicts.forEach
ApplyOne(conflict, st) ==
    IF ~conflict.resolved \/ conflict.resolution.null THEN st
    ELSE IF conflict.type = "collision"
    THEN [CollisionLoop(conflict, Len(st.list), [st EXCEPT !.kept = FALSE]) EXCEPT !.kept = FALSE]
    ELSE IF conflict.type = "gap"
    THEN [st EXCEPT !.additionalWeeks = Append(st.additionalWeeks, GapFill(conflict))]
    ELSE st

\* conflicts.forEach over the conflicts at places first .. last; the range
\* is halved, and the first half is evaluated before the second is entered,
\* so that long lists are scanned without deep nesting
RECURSIVE ApplyScan(_, _, _, _)
ApplyScan(cs, first, last, st) ==
    IF first > last THEN st
    ELSE IF first = last THEN ApplyOne(cs[first], st)
    ELSE LET mid == (first + last) \div 2
             front == ApplyScan(cs, first, mid, st)
         IN  IF Len(front.list) >= 0 THEN ApplyScan(cs, mid + 1, last, front) ELSE front

\* applyResolutions: returned is the list it returns, objs the caller's
\* mapping objects as the call leaves them
applyResolutions(ms, cs) ==
    LET st == ApplyScan(cs, 1, Len(cs), [objs |-> ms, list |-> [i \in 1 .. Len(ms) |-> i],
                             additionalWeeks |-> <<>>, kept |-> FALSE])
        all == [i \in 1 .. Len(st.list) |-> st.objs[st.list[i]]] \o st.additionalWeeks
    IN  [returned |-> SortByTargetStart(SelectSeq(all, HasTarget)),
         objs     |-> st.objs]


-----------------------------------------------------------------------------
(* calculations.js: calculateListPrice *)

(***************************************************************************)
(* A JavaScript number is an IEEE-754 double, and the quotient is rounded   *)
(* to one before Math.ceil sees it.  A natural number of any size is the    *)
(* sequence of its digits to the base 2^LimbBits, the least significant     *)
(* first and without leading zeros; a double that is not negative is        *)
(* [m, e] and stands for m * 2^e, where m is zero or has exactly            *)
(* MantissaBits bits.                                                       *)
(***************************************************************************)

\* the bits of the significand of a double
MantissaBits == 53

\* the bits of one digit of a natural number
LimbBits == 15

Base == 2 ^ LimbBits

RECURSIVE BigOf(_)
BigOf(n) == IF n = 0 THEN <<>> ELSE <<n % Base>> \o BigOf(n \div Base)

RECURSIVE NatOf(_)
NatOf(b) == IF b = <<>> THEN 0 ELSE Head(b) + Base * NatOf(Tail(b))

RECURSIVE Trim(_)
Trim(b) == IF b # <<>> /\ b[Len(b)] = 0 THEN Trim(SubSeq(b, 1, Len(b) - 1)) ELSE b

\* the number of bits of b
BitLength(b) ==
    IF b = <<>> THEN 0
    ELSE LimbBits * (Len(b) - 1)
         + (CHOOSE k \in 1 .. LimbBits : 2 ^ (k - 1) <= b[Len(b)] /\ b[Len(b)] < 2 ^ k)

\* bit i of b, bit 1 the least significant
Bit(b, i) ==
    LET l == ((i - 1) \div LimbBits) + 1
    IN  IF l > Len(b) THEN 0 ELSE (b[l] \div (2 ^ ((i - 1) % LimbBits))) % 2

RECURSIVE TimesFrom(_, _, _, _)
TimesFrom(b, f, i, carry) ==
    IF i > Len(b) THEN (IF carry = 0 THEN <<>> ELSE <<carry>>)
    ELSE LET p == b[i] * f + carry
             rest == TimesFrom(b, f, i + 1, p \div Base)
         IN  <<p % Base>> \o rest

\* b * f + carry, for f <= Base and carry < Base
TimesPlus(b, f, carry) == TimesFrom(b, f, 1, carry)

\* b * 2^n
ShiftLeft(b, n) ==
    IF b = <<>> THEN <<>>
    ELSE [i \in 1 .. (n \div LimbBits) |-> 0] \o TimesPlus(b, 2 ^ (n % LimbBits), 0)

RECURSIVE OverFrom(_, _, _, _)
OverFrom(b, f, i, rem) ==
    IF i = 0 THEN <<>>
    ELSE LET cur == rem * Base + b[i]
             rest == OverFrom(b, f, i - 1, cur % f)
         IN  rest \o <<cur \div f>>

\* b \div 2^n
ShiftRight(b, n) ==
    LET rest == SubSeq(b, (n \div LimbBits) + 1, Len(b))
    IN  Trim(OverFrom(rest, 2 ^ (n % LimbBits), Len(rest), 0))

RECURSIVE LessFrom(_, _, _)
LessFrom(a, b, i) ==
    IF i = 0 THEN FALSE
    ELSE IF a[i] # b[i] THEN a[i] < b[i]
    ELSE LessFrom(a, b, i - 1)

\* a < b
Less(a, b) == IF Len(a) # Len(b) THEN Len(a) < Len(b) ELSE LessFrom(a, b, Len(a))

RECURSIVE SubFrom(_, _, _, _)
SubFrom(a, b, i, borrow) ==
    IF i > Len(a) THEN <<>>
    ELSE LET d == a[i] - (IF i <= Len(b) THEN b[i] ELSE 0) - borrow
             rest == SubFrom(a, b, i + 1, IF d < 0 THEN 1 ELSE 0)
         IN  <<(d + Base) % Base>> \o rest

\* a - b, for a >= b
Sub(a, b) == Trim(SubFrom(a, b, 1, 0))

RECURSIVE AddOne(_)
AddOne(b) ==
    IF b = <<>> THEN <<1>>
    ELSE IF Head(b) + 1 < Base THEN <<Head(b) + 1>> \o Tail(b)
    ELSE <<0>> \o AddOne(Tail(b))

\* long division, a bit at a time: the bits i .. low of n are brought down
\* into the remainder st.r, the quotient so far is st.q
RECURSIVE DivBits(_, _, _, _, _)
DivBits(n, d, i, low, st) ==
    IF i < low THEN st
    ELSE LET r2 == TimesPlus(st.r, 2, Bit(n, i))
         IN  IF Less(r2, d)
             THEN DivBits(n, d, i - 1, low, [q |-> TimesPlus(st.q, 2, 0), r |-> r2])
             ELSE DivBits(n, d, i - 1, low, [q |-> TimesPlus(st.q, 2, 1), r |-> Sub(r2, d)])

\* the digits l .. 1 of n are still to be brought down
RECURSIVE DivLimbs(_, _, _, _)
DivLimbs(n, d, l, st) ==
    IF l = 0 THEN st
    ELSE LET after == DivBits(n, d, LimbBits * l, LimbBits * (l - 1) + 1, st)
         IN  DivLimbs(n, d, l - 1, after)

\* quotient q and remainder r of n by d
DivMod(n, d) == DivLimbs(n, d, Len(n), [q |-> <<>>, r |-> <<>>])

\* the double nearest to (n / d) * 2^x, ties to the even significand
RoundToDouble(n, d, x) ==
    IF n = <<>> THEN [m |-> <<>>, e |-> 0]
    ELSE LET s == (MantissaBits + 1) - (BitLength(n) - BitLength(d))
             num == IF s >= 0 THEN ShiftLeft(n, s) ELSE n
             den == IF s >= 0 THEN d ELSE ShiftLeft(d, -s)
             dm == DivMod(num, den)
             t == BitLength(dm.q) - MantissaBits
             low == dm.q[1] % (2 ^ t)
             half == 2 ^ (t - 1)
             kept == ShiftRight(dm.q, t)
             up == \/ low > half
                   \/ low = half /\ (dm.r # <<>> \/ kept[1] % 2 = 1)
             m == IF up THEN AddOne(kept) ELSE kept
         IN  IF BitLength(m) > MantissaBits
             THEN [m |-> ShiftRight(m, 1), e |-> x + t - s + 1]
             ELSE [m |-> m, e |-> x + t - s]

\* the number a decimal literal n / d denotes: 0.155 is Decimal(155, 1000)
Decimal(n, d) == RoundToDouble(BigOf(n), BigOf(d), 0)

\* a >= 1
AtLeastOne(a) == a.m # <<>> /\ BitLength(a.m) + a.e >= 1

\* a - b, for a >= b >= 0
Minus(a, b) ==
    LET low == IF a.e < b.e THEN a.e ELSE b.e
        am == ShiftLeft(a.m, a.e - low)
        bm == ShiftLeft(b.m, b.e - low)
    IN  RoundToDouble(Sub(am, bm), <<1>>, low)

\* a / b, for b > 0
Divide(a, b) == RoundToDouble(a.m, b.m, a.e - b.e)

\* Math.ceil, as an integer
Ceil(a) ==
    IF a.m = <<>> THEN 0
    ELSE IF a.e >= 0 THEN NatOf(ShiftLeft(a.m, a.e))
    ELSE IF -a.e >= BitLength(a.m) THEN 1
    ELSE LET whole == ShiftRight(a.m, -a.e)
         IN  NatOf(whole) + (IF ShiftLeft(whole, -a.e) # a.m THEN 1 ELSE 0)

\* calculateListPrice: netPrice is a whole number of dollars
calculateListPrice(netPrice, commissionRate) ==
    IF AtLeastOne(commissionRate) THEN netPrice
    ELSE LET kept == Minus(Decimal(1, 1), commissionRate)
             listPrice == Divide(Decimal(netPrice, 1), kept)
         IN  Ceil(listPrice)

-----------------------------------------------------------------------------
(* The inputs *)

\* formatDateISO: "YYYY-MM-DD"
formatDateISO(date) == <<GetFullYear(date), GetMonth(date) + 1, GetDate(date)>>

HolidayDate(holidays, key) == holidays[PropertyIndex(holidays, key)].date

\* the anchor ids of the standard holidays and the holiday each stands for
holidayMap ==
    << [id |-> "memorial",     key |-> "memorialDay",  name |-> "Memorial Day"],
       [id |-> "july4",        key |-> "july4th",      name |-> "July 4th"],
       [id |-> "labor",        key |-> "laborDay",     name |-> "Labor Day"],
       [id |-> "thanksgiving", key |-> "thanksgiving", name |-> "Thanksgiving"],
       [id |-> "christmas",    key |-> "christmas",    name |-> "Christmas"],
       [id |-> "newyear",      key |-> "newYearsDay",  name |-> "New Year's Day"] >>

\* the default settings.anchors: one enabled holiday anchor per standard holiday
createDefaultAnchors(sy, ty) ==
    LET sourceHolidays == HolidaysForYear(sy)
        targetHolidays == HolidaysForYear(ty)
    IN  [i \in 1 .. Len(holidayMap) |->
            [id |-> holidayMap[i].id, name |-> holidayMap[i].name, type |-> "holiday",
             enabled |-> TRUE,
             sourceDate |-> formatDateISO(HolidayDate(sourceHolidays, holidayMap[i].key)),
             targetDate |-> formatDateISO(HolidayDate(targetHolidays, holidayMap[i].key))]]

\* the checkbox of the anchor list: the anchors with the given ids get enabled = on
ToggleAnchors(as, ids, on) ==
    [i \in 1 .. Len(as) |-> IF as[i].id \in ids THEN [as[i] EXCEPT !.enabled = on] ELSE as[i]]

\* a custom anchor as the settings page adds it
CustomAnchor(id, name, sourceDate, targetDate) ==
    [id |-> id, name |-> name, type |-> "custom", enabled |-> TRUE,
     sourceDate |-> sourceDate, targetDate |-> targetDate]

\* the anchor configurations explored
AnchorConfigs(sy, ty) ==
    LET april == CustomAnchor("custom_1", "April School Break", <<sy, 4, 15>>, <<ty, 4, 14>>)
        regatta == CustomAnchor("custom_2", "Regatta", <<sy, 4, 16>>, <<ty, 4, 21>>)
    IN  { <<>>,
          createDefaultAnchors(sy, ty),
          ToggleAnchors(createDefaultAnchors(sy, ty), {"memorial", "thanksgiving"}, FALSE),
          <<april>>,
          <<[april EXCEPT !.targetDate = NoDate]>>,
          <<[april EXCEPT !.enabled = FALSE]>>,
          <<april, regatta>> }

\* a source week record as the tests build it (createSourceWeek); a
\* serialized record has its start as a string
createSourceWeek(startDate, price, serialized) ==
    [serialized |-> serialized,
     key        |-> weekKey(startDate),
     startDate  |-> <<GetFullYear(startDate), GetMonth(startDate), GetDate(startDate)>>,
     price      |-> price]

\* the price patterns of the source lists: the week at place i carries PriceAt(p, i)
PricePatterns ==
    { << Str(<<"$", "3", ",", "0", "0", "0">>), Str(<<"$", "3", ",", "5", "0", "0">>), Num(3751) >>,
      << Str(<<"$", "3", ",", "5", "0", "0">>), Str(<<"$", "3", ",", "0", "0", "0">>),
         Str(<<"T", "B", "D">>) >> }

PriceAt(p, i) == p[((i - 1) % Len(p)) + 1]

\* the custom prices a user enters
CustomPrices == {Num(3300)}

\* the steps between successive weeks of a source list: the week before, the
\* same week again, the week after
Steps == {-1, 0, 1}

\* the lists of week places with at most len elements that start at first and
\* go on by Steps inside 1 .. n
RECURSIVE Walks(_, _, _)
Walks(first, n, len) ==
    IF len = 0 \/ first < 1 \/ first > n THEN {}
    ELSE {<<first>>} \cup
         UNION {{<<first>> \o w : w \in Walks(first + d, n, len - 1)} : d \in Steps}

\* the months (0-based) in which the source lists of the pipeline start
PipelineMonths == {5}

\* single source weeks: every week of the year, aligned or late by a skew,
\* structured or serialized
ProbeLists(sy, wsd) ==
    LET weeks == WeeksForYear(sy, wsd)
        price == Str(<<"$", "3", ",", "5", "0", "0">>)
    IN  {<<>>} \cup
        {<<createSourceWeek(weeks[k].start + skew, price, ser)>> :
            k \in 1 .. Len(weeks), skew \in 0 .. MaxSkew, ser \in BOOLEAN}

\* source lists of the pipeline: walks over the weeks of the year
PipelineLists(sy, wsd) ==
    LET weeks == WeeksForYear(sy, wsd)
        firsts == {k \in 1 .. Len(weeks) : GetMonth(weeks[k].start) \in PipelineMonths}
        walks == UNION {Walks(f, Len(weeks), MaxWeeks) : f \in firsts}
    IN  {<<>>} \cup
        {[i \in 1 .. Len(w) |-> createSourceWeek(weeks[w[i]].start, PriceAt(p, i), FALSE)] :
            w \in walks, p \in PricePatterns}

-----------------------------------------------------------------------------
(* The state machine *)

\* no function is called directly
NoCall == [fn |-> "", args |-> <<>>, returned |-> FALSE, result |-> <<>>]

TypeOK ==
    /\ sourceYear \in Years
    /\ targetYear = sourceYear + 1
    /\ weekStartDay \in 0 .. 6
    /\ tzWest \in BOOLEAN
    /\ pc \in {"input", "mapped", "detected", "applied", "redetected"}

\* the probe: one source week, every year, start weekday, zone and anchor configuration
InitProbe ==
    /\ sourceYear \in Years
    /\ targetYear = sourceYear + 1
    /\ weekStartDay \in 0 .. 6
    /\ tzWest \in BOOLEAN
    /\ anchors \in AnchorConfigs(sourceYear, targetYear)
    /\ sourceWeeks \in ProbeLists(sourceYear, weekStartDay)
    /\ mappings = <<>>
    /\ conflicts = <<>>
    /\ resolved = <<>>
    /\ pc = "input"
    /\ call = NoCall

\* the pipeline: lists of source weeks of the first year; the weeks start on
\* Saturday, the default of the settings
Init ==
    /\ sourceYear = BaseYear
    /\ targetYear = sourceYear + 1
    /\ weekStartDay = 6
    /\ tzWest = FALSE
    /\ anchors \in {<<>>,
                   <<CustomAnchor("custom_1", "April School Break", <<sourceYear, 6, 10>>, NoDate)>>,
                   <<CustomAnchor("custom_1", "April School Break", <<sourceYear, 6, 10>>,
                                  <<targetYear, 6, 24>>)>>}
    /\ sourceWeeks \in PipelineLists(sourceYear, weekStartDay)
    /\ mappings = <<>>
    /\ conflicts = <<>>
    /\ resolved = <<>>
    /\ pc = "input"
    /\ call = NoCall

\* mappings = mapWeeksByHolidays(sourceWeeks, sourceYear, targetYear, settings.anchors, weekStart)
MapWeeks ==
    /\ pc = "input"
    /\ mappings' = mapWeeksByHolidays(sourceWeeks, sourceYear, targetYear, anchors, weekStartDay)
    /\ pc' = "mapped"
    /\ UNCHANGED <<sourceYear, targetYear, weekStartDay, tzWest, anchors, sourceWeeks, conflicts, resolved, call>>

\* conflicts = detectConflicts(mappings, targetYear, weekStart)
DetectConflicts ==
    /\ pc = "mapped"
    /\ conflicts' = detectConflicts(mappings, targetYear, weekStartDay)
    /\ pc' = "detected"
    /\ UNCHANGED <<sourceYear, targetYear, weekStartDay, tzWest, anchors, sourceWeeks, mappings, resolved, call>>

\* at most this many conflicts are resolved before applyResolutions runs
MaxResolved == 1
\* of the gap conflicts only the MaxGapChoice with the most options (the
\* earliest among equals) are resolved one by one; the others stay unresolved
MaxGapChoice == 1

ResolvedCount == Cardinality({c \in 1 .. Len(conflicts) : conflicts[c].resolved})

\* the gap conflicts that come before gap conflict c in that choice
GapsBefore(c) ==
    Cardinality({d \in 1 .. Len(conflicts) :
                    /\ conflicts[d].type = "gap"
                    /\ \/ Len(conflicts[d].options) > Len(conflicts[c].options)
                       \/ Len(conflicts[d].options) = Len(conflicts[c].options) /\ d < c})

\* the conflicts the user may still pick an option for
Choosable ==
    IF pc = "detected" /\ ResolvedCount < MaxResolved
    THEN {c \in 1 .. Len(conflicts) :
            /\ ~conflicts[c].resolved
            /\ conflicts[c].type = "gap" => GapsBefore(c) < MaxGapChoice}
    ELSE {}

\* the resolution the UI writes back for an option: a copy of the option,
\* with the custom price the user typed
ResolutionOf(option, customPrice, omitIndex) ==
    [null |-> FALSE,
     value |-> option.value,
     customPrice |-> IF option.value = Custom THEN customPrice ELSE Undefined,
     sourceIndex |-> IF omitIndex THEN Undefined ELSE option.sourceIndex,
     interpolatedPrice |-> option.interpolatedPrice]

\* the user picks option o of conflict c
Resolve(c, o, customPrice, omitIndex) ==
    /\ pc = "detected"
    /\ omitIndex => (conflicts[c].type = "collision" /\ conflicts[c].options[o].value = Custom)
    /\ conflicts' = [conflicts EXCEPT ![c].resolved = TRUE,
                                      ![c].resolution = ResolutionOf(conflicts[c].options[o], customPrice, omitIndex)]
    /\ UNCHANGED <<sourceYear, targetYear, weekStartDay, tzWest, anchors, sourceWeeks, mappings, resolved, pc, call>>

\* resolved = applyResolutions(mappings, conflicts); the mapping objects are
\* shared with the mappings list
ApplyResolutions ==
    /\ pc = "detected"
    /\ LET r == applyResolutions(mappings, conflicts)
       IN  /\ resolved' = r.returned
           /\ mappings' = r.objs
    /\ pc' = "applied"
    /\ UNCHANGED <<sourceYear, targetYear, weekStartDay, tzWest, anchors, sourceWeeks, conflicts, call>>

Next ==
    \/ MapWeeks
    \/ DetectConflicts
    \/ \E c \in Choosable, customPrice \in CustomPrices, omitIndex \in BOOLEAN :
          \E o \in 1 .. Len(conflicts[c].options) : Resolve(c, o, customPrice, omitIndex)
    \/ ApplyResolutions

Spec == Init /\ [][Next]_vars

NextProbe == MapWeeks

SpecProbe == InitProbe /\ [][NextProbe]_vars

-----------------------------------------------------------------------------
(* Detect, resolve every gap, apply, detect again *)

\* a gap conflict offers at most four options: previous, next, interpolate, custom
MaxGapOptions == 4

\* every gap conflict of the list is resolved
AllGapsResolved ==
    \A c \in 1 .. Len(conflicts) :
        conflicts[c].type = "gap" => (conflicts[c].resolved /\ ~conflicts[c].resolution.null)

\* the user picks option o of a collision before turning to the gaps
ResolveCollision(c, o, customPrice) ==
    /\ pc = "detected"
    /\ ResolvedCount = 0
    /\ conflicts[c].type = "collision"
    /\ Resolve(c, o, customPrice, FALSE)

\* the user resolves every gap conflict, each with its n-th option (the last
\* one, custom, when it offers fewer)
ResolveGaps(n, customPrice) ==
    /\ pc = "detected"
    /\ ~AllGapsResolved
    /\ conflicts' =
          [c \in 1 .. Len(conflicts) |->
              IF conflicts[c].type = "gap"
              THEN LET options == conflicts[c].options
                       o == IF n <= Len(options) THEN n ELSE Len(options)
                   IN  [conflicts[c] EXCEPT !.resolved = TRUE,
                                            !.resolution = ResolutionOf(options[o], customPrice, FALSE)]
              ELSE conflicts[c]]
    /\ UNCHANGED <<sourceYear, targetYear, weekStartDay, tzWest, anchors, sourceWeeks, mappings, resolved, pc, call>>

\* applyResolutions once the gaps are resolved
ApplyResolvedGaps == AllGapsResolved /\ ApplyResolutions

\* detectConflicts(resolved, targetYear, weekStartDay) on the returned list;
\* the call and how it ends are kept beside the resolved conflicts
DetectAgain ==
    /\ pc = "applied"
    /\ pc' = "redetected"
    /\ call' = [fn |-> "detectConflicts", args |-> <<targetYear, weekStartDay>>, returned |-> TRUE,
                result |-> IF detectConflictsThrows(resolved) THEN Thrown
                           ELSE Completed(detectConflicts(resolved, targetYear, weekStartDay))]
    /\ UNCHANGED <<sourceYear, targetYear, weekStartDay, tzWest, anchors, sourceWeeks, mappings,
                   conflicts, resolved>>

NextClose ==
    \/ MapWeeks
    \/ DetectConflicts
    \/ \E c \in 1 .. Len(conflicts), customPrice \in CustomPrices :
          \E o \in 1 .. Len(conflicts[c].options) : ResolveCollision(c, o, customPrice)
    \/ \E n \in 1 .. MaxGapOptions, customPrice \in CustomPrices : ResolveGaps(n, customPrice)
    \/ ApplyResolvedGaps
    \/ DetectAgain

SpecClose == Init /\ [][NextClose]_vars

-----------------------------------------------------------------------------
(* Direct calls of the exported functions, as the test suites make them *)

\* the years of the calls: the year before the first source year up to the
\* year after the last
CallYears == (BaseYear - 1) .. (BaseYear + NumYears)

\* net prices in whole dollars
NetPrices == {1, 21, 465, 845, 3000, 3500, 3720, 10000}

\* commission rates as decimal literals, in thousandths: 155 is 0.155
CommissionRates == {0, 30, 70, 80, 150, 155, 300, 500, 999, 1000, 1500}

\* the records of the direct calls of the mapper: a week of June as the tests
\* build it, the same without startDate, and a serialized one without key
CallRecords ==
    LET week == createSourceWeek(MakeDate(BaseYear, 5, 6), Str(<<"$", "3", ",", "5", "0", "0">>), FALSE)
    IN  {week, [week EXCEPT !.startDate = NoDate],
         [week EXCEPT !.serialized = TRUE],
         [week EXCEPT !.serialized = TRUE, !.key = NoKey]}

\* lists of one or two records
CallLists == {<<a>> : a \in CallRecords} \cup {<<a, b>> : a \in CallRecords, b \in CallRecords}

Pending(fn, args) == [fn |-> fn, args |-> args, returned |-> FALSE, result |-> <<>>]

Calls ==
    {Pending("getWeekContainingDate", <<date, wsd>>) :
        date \in MakeDate(BaseYear - 1, 0, 1) .. MakeDate(BaseYear + NumYears, 11, 31), wsd \in 0 .. 6}
    \cup {Pending("generateWeeksForYear", <<year, wsd>>) : year \in CallYears, wsd \in 0 .. 6}
    \cup {Pending("getHolidaysForYear", <<year>>) : year \in CallYears}
    \cup {Pending("calculateListPrice", <<netPrice, <<rate, 1000>>>>) :
            netPrice \in NetPrices, rate \in CommissionRates}
    \cup {Pending("mapWeeksByHolidays", <<weeks, BaseYear, BaseYear + 1, <<>>, 6>>) : weeks \in CallLists}

InitCalls ==
    /\ sourceYear = BaseYear
    /\ targetYear = sourceYear + 1
    /\ weekStartDay = 0
    /\ tzWest = FALSE
    /\ anchors = <<>>
    /\ sourceWeeks = <<>>
    /\ mappings = <<>>
    /\ conflicts = <<>>
    /\ resolved = <<>>
    /\ pc = "input"
    /\ call \in Calls

Return(fn, result) ==
    /\ call.fn = fn
    /\ ~call.returned
    /\ call' = [call EXCEPT !.returned = TRUE, !.result = result]
    /\ UNCHANGED <<sourceYear, targetYear, weekStartDay, tzWest, anchors, sourceWeeks,
                   mappings, conflicts, resolved, pc>>

GetWeekContainingDate ==
    Return("getWeekContainingDate", getWeekContainingDate(call.args[1], call.args[2]))

GenerateWeeksForYear ==
    Return("generateWeeksForYear", generateWeeksForYear(call.args[1], call.args[2]))

GetHolidaysForYear ==
    Return("getHolidaysForYear", getHolidaysForYear(call.args[1]))

\* the literal of the rate becomes a number when the call is made
CalculateListPrice ==
    Return("calculateListPrice",
           calculateListPrice(call.args[1], Decimal(call.args[2][1], call.args[2][2])))

MapWeeksByHolidays ==
    Return("mapWeeksByHolidays",
           mapWeeksByHolidaysOutcome(call.args[1], call.args[2], call.args[3], call.args[4], call.args[5]))

NextCalls ==
    \/ GetWeekContainingDate
    \/ GenerateWeeksForYear
    \/ GetHolidaysForYear
    \/ CalculateListPrice
    \/ MapWeeksByHolidays

SpecCalls == InitCalls /\ [][NextCalls]_vars


-----------------------------------------------------------------------------
(* What the mapper is checked against: the anchor sets and the week          *)
(* arithmetic, written from the anchor configuration and the calendar        *)

StandardKeys == <<"newYearsDay", "memorialDay", "july4th", "laborDay", "thanksgiving", "christmas">>

IsStandardKey(k) == \E i \in 1 .. Len(StandardKeys) : StandardKeys[i] = k

\* the date string of an anchor for the source or the target year
AnchorDateString(a, which) == IF which = "source" THEN a.sourceDate ELSE a.targetDate

\* the places in settings.anchors of the enabled anchors that have a date for that year
DatedAnchors(which) ==
    {i \in 1 .. Len(anchors) : anchors[i].enabled /\ AnchorDateString(anchors[i], which) # NoDate}

\* the keys of the anchor set of a year: the standard holidays and the dated enabled anchors
AnchorKeySet(which) ==
    {StandardKeys[i] : i \in 1 .. Len(StandardKeys)} \cup {anchors[i].id : i \in DatedAnchors(which)}

\* the date an anchor key stands for in a year: the date of the last dated
\* enabled anchor with that id, else the standard holiday of that year
AnchorDateOf(key, which) ==
    LET year == IF which = "source" THEN sourceYear ELSE targetYear
        own == {i \in DatedAnchors(which) : anchors[i].id = key}
    IN  IF own # {}
        THEN ParseISODate(AnchorDateString(anchors[CHOOSE i \in own : \A j \in own : j <= i], which))
        ELSE HolidayDate(HolidaysForYear(year), key)

\* the iteration rank of an anchor key: the standard holidays in their fixed
\* order, then the other anchors in list order
AnchorRank(key, which) ==
    IF IsStandardKey(key)
    THEN CHOOSE i \in 1 .. Len(StandardKeys) : StandardKeys[i] = key
    ELSE Len(StandardKeys) +
         (CHOOSE i \in DatedAnchors(which) :
             anchors[i].id = key /\ \A j \in DatedAnchors(which) : anchors[j].id = key => i <= j)

\* the day on which the rental week containing a date starts
RentalWeekStart(date) ==
    CHOOSE d \in (date - 6) .. date : GetDay(d) = weekStartDay

\* the signed number of weeks from the week of an anchor to a week start, to the nearest week
WeekDistance(weekStart, key, which) ==
    LET diff == weekStart - RentalWeekStart(AnchorDateOf(key, which))
    IN  CHOOSE k \in ((diff \div 7) - 1) .. ((diff \div 7) + 1) : Abs(diff - 7 * k) <= 3

Mapped == pc # "input"

MappedPlaces == IF Mapped THEN 1 .. Len(mappings) ELSE {}

SuccessfulPlaces == {i \in MappedPlaces : mappings[i].target # NoTarget}

-----------------------------------------------------------------------------
(* Claims *)

\* C1: mapWeeksByHolidays returns exactly one mapping per source week, in
\* input order: the i-th mapping carries the i-th source week and its start
\* date; the empty list gives the empty list.
C1_OneMappingPerWeek ==
    Mapped =>
        /\ Len(mappings) = Len(sourceWeeks)
        /\ \A i \in 1 .. Len(sourceWeeks) :
              /\ mappings[i].source = sourceWeeks[i]
              /\ weekKey(mappings[i].sourceStart) = sourceWeeks[i].key

\* C1 witness: a list of three weeks, one of them without a target, has been mapped
C1_Witness ==
    /\ pc = "mapped"
    /\ Len(sourceWeeks) = 3
    /\ sourceWeeks[1] # sourceWeeks[2]
    /\ \E i \in 1 .. 3 : mappings[i].target = NoTarget

\* C2: a mapping has target = null and the error 'No matching anchor in
\* target year' exactly when the key of its nearest source-year anchor has no
\* entry in the target-year anchor set; otherwise the target is set and there
\* is no error.  The source week is emitted in both cases.
C2_NullTargetIffNoTargetAnchor ==
    \A i \in MappedPlaces :
        LET m == mappings[i]
        IN  /\ m.source = sourceWeeks[i]
            /\ IF m.holidayKey \in AnchorKeySet("target")
               THEN m.target # NoTarget /\ m.error = ""
               ELSE m.target = NoTarget /\ m.error = "No matching anchor in target year"

\* C2 witness: a week anchored to a custom anchor without a target date has been mapped
C2_Witness ==
    /\ pc = "mapped"
    /\ \E i \in MappedPlaces :
          /\ mappings[i].target = NoTarget
          /\ mappings[i].holidayKey = "custom_1"
          /\ \E a \in 1 .. Len(anchors) : anchors[a].id = "custom_1" /\ anchors[a].targetDate = NoDate

\* C3: a successful mapping's target starts at the start of the rental week
\* containing the same anchor's target-year date, shifted by weeksAway weeks,
\* and ends 7 days later; so it starts on weekStartDay and its week distance
\* to the anchor's target week is weeksAway.
C3_TargetIsShiftedAnchorWeek ==
    \A i \in SuccessfulPlaces :
        LET m == mappings[i]
            anchorWeek == RentalWeekStart(AnchorDateOf(m.holidayKey, "target"))
        IN  /\ m.target.start = anchorWeek + 7 * m.weeksAway
            /\ m.target.end = m.target.start + 7
            /\ GetDay(m.target.start) = weekStartDay
            /\ WeekDistance(m.target.start, m.holidayKey, "target") = m.weeksAway
            /\ m.target.key = <<GetFullYear(m.target.start), GetMonth(m.target.start) + 1, GetDate(m.target.start)>>

\* C3 witness: a week two or more weeks before its anchor has been mapped
\* with a week start day other than Saturday
C3_Witness ==
    /\ pc = "mapped"
    /\ weekStartDay # 6
    /\ \E i \in SuccessfulPlaces : mappings[i].weeksAway <= -2

\* C4 as stated: every successfully mapped source week that starts in the
\* source year has a target week that starts in the target year.
C4_TargetStartsInTargetYear ==
    \A i \in SuccessfulPlaces :
        GetFullYear(mappings[i].sourceStart) = sourceYear
            => GetFullYear(mappings[i].target.start) = targetYear

\* C4 amended: a successfully mapped source week that starts in the source
\* year and is anchored to a standard holiday has a target week that starts
\* in the target year, except that the New Year's Day week itself (offset 0)
\* may start in the last days of the year before, and a week after Christmas
\* (offset > 0) may start in the first days of the year after.
C4_TargetYearExceptAtYearEnds ==
    \A i \in SuccessfulPlaces :
        LET m == mappings[i]
            year == GetFullYear(m.target.start)
        IN  (GetFullYear(m.sourceStart) = sourceYear /\ IsStandardKey(m.holidayKey)) =>
                \/ year = targetYear
                \/ /\ m.holidayKey = "newYearsDay" /\ m.weeksAway = 0
                   /\ year = targetYear - 1
                   /\ m.target.end > MakeDate(targetYear, 0, 1)
                \/ /\ m.holidayKey = "christmas" /\ m.weeksAway > 0
                   /\ year = targetYear + 1
                   /\ m.target.start < MakeDate(targetYear + 1, 0, 1) + 7 * m.weeksAway

\* C4 witness: a week after Christmas has been mapped into the year after the target year
C4_Witness ==
    /\ pc = "mapped"
    /\ \E i \in SuccessfulPlaces :
          /\ GetFullYear(mappings[i].sourceStart) = sourceYear
          /\ mappings[i].holidayKey = "christmas"
          /\ GetFullYear(mappings[i].target.start) = targetYear + 1

\* C5: the anchor of a mapping is the anchor of the source-year set whose
\* week is nearest in weeks to the source week start, weeksAway is that
\* signed distance, and among anchors at the same absolute distance it is
\* the first in iteration order.
C5_NearestAnchorFirstWins ==
    \A i \in MappedPlaces :
        LET m == mappings[i]
            dist(k) == WeekDistance(m.sourceStart, k, "source")
        IN  /\ m.holidayKey \in AnchorKeySet("source")
            /\ m.weeksAway = dist(m.holidayKey)
            /\ \A k \in AnchorKeySet("source") :
                  \/ Abs(dist(k)) > Abs(m.weeksAway)
                  \/ /\ Abs(dist(k)) = Abs(m.weeksAway)
                     /\ AnchorRank(m.holidayKey, "source") <= AnchorRank(k, "source")

\* C5 witness: a week with two anchors at the same distance, one before and
\* one after it, has been mapped
C5_Witness ==
    /\ pc = "mapped"
    /\ \E i \in MappedPlaces :
          /\ mappings[i].weeksAway > 0
          /\ \E k \in AnchorKeySet("source") :
                WeekDistance(mappings[i].sourceStart, k, "source") = -mappings[i].weeksAway

\* the holiday key a holiday anchor id stands for
HolidayKeyOfAnchor(id) ==
    IF \E i \in 1 .. Len(holidayMap) : holidayMap[i].id = id
    THEN holidayMap[CHOOSE i \in 1 .. Len(holidayMap) : holidayMap[i].id = id].key
    ELSE id

\* C6: no mapping is anchored to a holiday or custom date whose anchor is
\* disabled in the configuration.
C6_DisabledAnchorsExcluded ==
    \A i \in MappedPlaces :
        \A a \in 1 .. Len(anchors) :
            ~anchors[a].enabled =>
                /\ mappings[i].holidayKey # anchors[a].id
                /\ mappings[i].holidayKey # HolidayKeyOfAnchor(anchors[a].id)


-----------------------------------------------------------------------------
(* Conflicts and resolutions *)

Detected == pc \in {"detected", "applied"}

ConflictsOfType(type) ==
    IF Detected THEN {c \in 1 .. Len(conflicts) : conflicts[c].type = type} ELSE {}

\* the places in the mapping list of the successful mappings onto a target key
Contributors(key) == {i \in SuccessfulPlaces : mappings[i].target.key = key}

\* the n-th smallest element of a set of places
NthPlace(places, n) == CHOOSE i \in places : Cardinality({j \in places : j < i}) = n - 1

\* C7: detectConflicts returns exactly one collision conflict for each target
\* key shared by two or more successful mappings and none for another key;
\* its mappings array lists the contributors in mapping-list order, and its
\* options are one per contributor with sourceIndex 0, 1, ... and the
\* contributor's price, followed by the custom option with sourceIndex -1.
C7_OneCollisionPerSharedKey ==
    Detected =>
        /\ \A i \in SuccessfulPlaces :
              Cardinality(Contributors(mappings[i].target.key)) >= 2 =>
                 Cardinality({c \in ConflictsOfType("collision") :
                                 conflicts[c].targetWeek = mappings[i].target.key}) = 1
        /\ \A c \in ConflictsOfType("collision") :
              LET conflict == conflicts[c]
                  group == Contributors(conflict.targetWeek)
                  n == Cardinality(group)
              IN  /\ n >= 2
                  /\ Len(conflict.mappings) = n
                  /\ Len(conflict.options) = n + 1
                  /\ \A k \in 1 .. n :
                        LET m == mappings[NthPlace(group, k)]
                        IN  /\ conflict.mappings[k].sourceRange = m.sourceRange
                            /\ conflict.mappings[k].price = m.source.price
                            /\ conflict.mappings[k].relationship = m.relationship
                            /\ conflict.options[k].value = m.source.price
                            /\ conflict.options[k].sourceIndex = Num(k - 1)
                  /\ conflict.options[n + 1].value = Custom
                  /\ conflict.options[n + 1].sourceIndex = Num(-1)

\* C7 witness: two different source weeks map onto one target week, next to
\* a mapping that shares its target week with no other
C7_Witness ==
    /\ pc = "detected"
    /\ \E c \in ConflictsOfType("collision") :
          /\ Len(conflicts[c].mappings) = 2
          /\ conflicts[c].mappings[1].sourceRange # conflicts[c].mappings[2].sourceRange
    /\ \E i \in SuccessfulPlaces : Cardinality(Contributors(mappings[i].target.key)) = 1

\* the generated weeks of the target year that need a price and have none:
\* start month April to November, key not the target of any mapping
UncoveredSeasonWeeks ==
    LET weeks == WeeksForYear(targetYear, weekStartDay)
        targeted == {mappings[i].target.key : i \in SuccessfulPlaces}
    IN  {weeks[k].key : k \in {j \in 1 .. Len(weeks) :
                                  /\ GetMonth(weeks[j].start) \in 3 .. 10
                                  /\ weeks[j].key \notin targeted}}

DistinctSourceWeeks ==
    \A i, j \in 1 .. Len(sourceWeeks) : i # j => sourceWeeks[i].key # sourceWeeks[j].key

\* the places in the result of applyResolutions of the mappings onto a target key
ResolvedOnto(key) == {r \in 1 .. Len(resolved) : resolved[r].target.key = key}

\* C9: after applyResolutions, a collision resolved by selecting contributor
\* i leaves exactly one mapping onto its target key: contributor i, with
\* proposedPrice = resolution.value.  Stated for source lists that name
\* every week once, so that each contributor has a sourceRange of its own.
C9_SelectedContributorAloneRemains ==
    (pc = "applied" /\ DistinctSourceWeeks) =>
        \A c \in ConflictsOfType("collision") :
            LET conflict == conflicts[c]
                group == Contributors(conflict.targetWeek)
            IN  \A i \in 0 .. (Cardinality(group) - 1) :
                    (conflict.resolved /\ conflict.resolution.sourceIndex = Num(i)) =>
                        /\ Cardinality(ResolvedOnto(conflict.targetWeek)) = 1
                        /\ \A r \in ResolvedOnto(conflict.targetWeek) :
                              /\ resolved[r].source = mappings[NthPlace(group, i + 1)].source
                              /\ resolved[r].proposedPrice = conflict.resolution.value

\* C10: after applyResolutions, a collision resolved with value 'custom' and
\* a customPrice leaves exactly one mapping onto its target key, the last
\* contributor of the list, with proposedPrice = customPrice, whether the
\* resolution omits sourceIndex or carries -1.  Stated for source lists that
\* name every week once.
C10_CustomPriceOnOneMapping ==
    (pc = "applied" /\ DistinctSourceWeeks) =>
        \A c \in ConflictsOfType("collision") :
            LET conflict == conflicts[c]
                group == Contributors(conflict.targetWeek)
            IN  (conflict.resolved /\ conflict.resolution.value = Custom) =>
                    /\ Cardinality(ResolvedOnto(conflict.targetWeek)) = 1
                    /\ \A r \in ResolvedOnto(conflict.targetWeek) :
                          /\ resolved[r].source = mappings[NthPlace(group, Cardinality(group))].source
                          /\ resolved[r].proposedPrice = conflict.resolution.customPrice


\* the collision conflict of a target key is there and has been resolved
CollisionResolved(key) ==
    \E c \in ConflictsOfType("collision") :
        /\ conflicts[c].targetWeek = key
        /\ conflicts[c].resolved
        /\ ~conflicts[c].resolution.null

\* C11: after applyResolutions, two returned mappings share a target key
\* only if the collision of that key was left unresolved; a resolved
\* collision leaves exactly one mapping for its key, an unresolved one keeps
\* all of its contributors.  Stated for source lists that name every week once.
C11_CollisionsGoOnlyByResolution ==
    (pc = "applied" /\ DistinctSourceWeeks) =>
        /\ \A r1, r2 \in 1 .. Len(resolved) :
              (r1 # r2 /\ resolved[r1].target.key = resolved[r2].target.key) =>
                  /\ ~CollisionResolved(resolved[r1].target.key)
                  /\ \E c \in ConflictsOfType("collision") :
                        conflicts[c].targetWeek = resolved[r1].target.key
        /\ \A c \in ConflictsOfType("collision") :
              LET key == conflicts[c].targetWeek
              IN  IF CollisionResolved(key)
                  THEN Cardinality(ResolvedOnto(key)) = 1
                  ELSE Cardinality(ResolvedOnto(key)) = Cardinality(Contributors(key))


\* the gap conflicts that carry a resolution
ResolvedGaps ==
    {c \in ConflictsOfType("gap") : conflicts[c].resolved /\ ~conflicts[c].resolution.null}

\* the places in the result of applyResolutions of the synthesized weeks
GapFills == {r \in 1 .. Len(resolved) : resolved[r].isGapFill}

\* the price a resolution stands for
ChosenPrice(resolution) ==
    IF resolution.value = Custom THEN resolution.customPrice
    ELSE IF resolution.value = Interpolate THEN resolution.interpolatedPrice
    ELSE resolution.value

\* C12: for each resolved gap conflict applyResolutions adds exactly one new
\* mapping, with source null, isGapFill true, target.key the conflict's
\* targetWeek, target.start the date of that key, target.end 7 days later,
\* and proposedPrice the customPrice, the interpolatedPrice or the raw value
\* of the resolution; nothing else is added.
C12_OneFillPerResolvedGap ==
    pc = "applied" =>
        /\ Cardinality(GapFills) = Cardinality(ResolvedGaps)
        /\ \A c \in ResolvedGaps :
              LET key == conflicts[c].targetWeek
                  fills == {r \in GapFills : resolved[r].target.key = key}
              IN  /\ Cardinality(fills) = 1
                  /\ \A r \in fills :
                        /\ resolved[r].source = NoSource
                        /\ resolved[r].target.start = MakeDate(key[1], key[2] - 1, key[3])
                        /\ resolved[r].target.end = resolved[r].target.start + 7
                        /\ resolved[r].proposedPrice = ChosenPrice(conflicts[c].resolution)

\* C12 witness: a gap between two mapped weeks was resolved by interpolation
\* and its week is in the result with the interpolated price
C12_Witness ==
    /\ pc = "applied"
    /\ \E c \in ResolvedGaps :
          /\ conflicts[c].resolution.value = Interpolate
          /\ \E r \in GapFills :
                /\ resolved[r].target.key = conflicts[c].targetWeek
                /\ resolved[r].proposedPrice = conflicts[c].resolution.interpolatedPrice
                /\ resolved[r].proposedPrice # Undefined


\* C13: the list applyResolutions returns holds no mapping with a null
\* target and is in ascending order of target.start; mappings of equal start
\* keep the order they had in the input list, a synthesized week after them.
C13_ResultSortedWithoutNullTargets ==
    pc = "applied" =>
        /\ \A r \in 1 .. Len(resolved) : resolved[r].target # NoTarget
        /\ \A r1, r2 \in 1 .. Len(resolved) :
              r1 < r2 =>
                  /\ resolved[r1].target.start <= resolved[r2].target.start
                  /\ resolved[r1].target.start = resolved[r2].target.start =>
                        /\ ~(resolved[r1].isGapFill /\ ~resolved[r2].isGapFill)
                        /\ (~resolved[r1].isGapFill /\ ~resolved[r2].isGapFill) =>
                              \E i1, i2 \in 1 .. Len(mappings) :
                                  /\ i1 < i2
                                  /\ mappings[i1] = resolved[r1]
                                  /\ mappings[i2] = resolved[r2]

\* C13 witness: the input list has two mappings in descending order of target
\* start, and the result has two different mappings of equal start
C13_Witness ==
    /\ pc = "applied"
    /\ \E i, j \in MappedPlaces :
          /\ i < j
          /\ mappings[i].target # NoTarget /\ mappings[j].target # NoTarget
          /\ mappings[i].target.start > mappings[j].target.start
    /\ \E r1, r2 \in 1 .. Len(resolved) :
          /\ r1 < r2
          /\ resolved[r1].target.start = resolved[r2].target.start
          /\ resolved[r1] # resolved[r2]


\* no conflict of the list has both resolved = true and a resolution
NoneResolved ==
    \A c \in 1 .. Len(conflicts) : ~conflicts[c].resolved \/ conflicts[c].resolution.null

\* C14: when no conflict has both resolved = true and a non-null resolution,
\* applyResolutions leaves every mapping object as it was and returns exactly
\* the input mappings that have a target, each as often as the input holds
\* it and with its original proposedPrice, in ascending order of
\* target.start; nothing is added and nothing is removed.
C14_UnresolvedConflictsAreInert ==
    [][(pc = "detected" /\ pc' = "applied" /\ NoneResolved) =>
          /\ mappings' = mappings
          /\ Len(resolved') = Cardinality(SuccessfulPlaces)
          /\ \A r \in 1 .. Len(resolved') :
                /\ \E i \in SuccessfulPlaces :
                      /\ resolved'[r] = mappings[i]
                      /\ resolved'[r].proposedPrice = mappings[i].proposedPrice
                /\ Cardinality({q \in 1 .. Len(resolved') : resolved'[q] = resolved'[r]})
                      = Cardinality({i \in SuccessfulPlaces : mappings[i] = resolved'[r]})
          /\ \A r1, r2 \in 1 .. Len(resolved') :
                r1 < r2 => resolved'[r1].target.start <= resolved'[r2].target.start]_vars

\* C14 witness: applyResolutions has run on a list with a collision and a
\* gap, none of them resolved, and on mappings of which one has no target
C14_Witness ==
    /\ pc = "applied"
    /\ NoneResolved
    /\ ConflictsOfType("collision") # {}
    /\ ConflictsOfType("gap") # {}
    /\ \E i \in 1 .. Len(mappings) : mappings[i].target = NoTarget
    /\ Len(resolved) = Cardinality(SuccessfulPlaces)


\* the texts of the options of conflict c
OptionTexts(c) == {conflicts[c].options[o].label.text : o \in 1 .. Len(conflicts[c].options)}

\* neighbour is what a gap conflict records of some successful mapping of
\* the places given whose target starts at start
RecordsWeekAt(neighbour, places, start) ==
    \E i \in places :
        /\ mappings[i].target.start = start
        /\ neighbour.range = mappings[i].targetRange
        /\ neighbour.price = mappings[i].proposedPrice

\* C15: for each gap conflict nearestBefore is the successfully mapped target
\* week with the greatest start strictly before the gap week's start and
\* nearestAfter the one with the smallest start strictly after it, null when
\* there is none; the options hold 'use previous' iff nearestBefore exists,
\* 'use next' iff nearestAfter exists, 'interpolate' iff both exist, and
\* always the custom option.  The conflicts are looked at as detectConflicts
\* returns them, before any of them is resolved.
C15_GapNeighboursAreNearest ==
    (pc = "detected" /\ NoneResolved) =>
        \A c \in ConflictsOfType("gap") :
            LET key == conflicts[c].targetWeek
                gapStart == MakeDate(key[1], key[2] - 1, key[3])
                starts == {mappings[i].target.start : i \in SuccessfulPlaces}
                before == {t \in starts : t < gapStart}
                after == {t \in starts : t > gapStart}
                texts == OptionTexts(c)
                nb == conflicts[c].nearestBefore
                na == conflicts[c].nearestAfter
            IN  /\ nb.null <=> before = {}
                /\ na.null <=> after = {}
                /\ ~nb.null =>
                      RecordsWeekAt(nb, SuccessfulPlaces, CHOOSE t \in before : \A u \in before : u <= t)
                /\ ~na.null =>
                      RecordsWeekAt(na, SuccessfulPlaces, CHOOSE t \in after : \A u \in after : t <= u)
                /\ "Use previous week's price" \in texts <=> before # {}
                /\ "Use next week's price" \in texts <=> after # {}
                /\ "Interpolate between neighbors" \in texts <=> (before # {} /\ after # {})
                /\ "Enter custom price" \in texts
                /\ Len(conflicts[c].options) = Cardinality(texts)

\* C15 witness: a gap week between two mapped weeks, a gap week after both
\* of them, and a gap week with no mapped week before it
C15_Witness ==
    /\ pc = "detected"
    /\ NoneResolved
    /\ \E c \in ConflictsOfType("gap") :
          /\ ~conflicts[c].nearestBefore.null
          /\ ~conflicts[c].nearestAfter.null
          /\ "Interpolate between neighbors" \in OptionTexts(c)
    /\ \E c \in ConflictsOfType("gap") :
          /\ ~conflicts[c].nearestBefore.null
          /\ conflicts[c].nearestAfter.null
          /\ \E i, j \in SuccessfulPlaces :
                /\ mappings[i].target.start < mappings[j].target.start
                /\ mappings[j].target.start < parseWeekKey(conflicts[c].targetWeek)
    /\ \E c \in ConflictsOfType("gap") :
          /\ conflicts[c].nearestBefore.null
          /\ "Use previous week's price" \notin OptionTexts(c)

\* C16: every successful mapping that mapWeeksByHolidays emits carries as
\* proposedPrice the price value of its source week, unparsed and
\* unmodified, be it a currency string or a bare number.
C16_PriceCarriedThrough ==
    pc = "mapped" =>
        \A i \in SuccessfulPlaces :
            /\ mappings[i].proposedPrice = sourceWeeks[i].price
            /\ mappings[i].proposedPrice = mappings[i].source.price

\* C16 witness: a successful mapping of a week priced by a currency string
\* and one of a week priced by a bare number
C16_Witness ==
    /\ pc = "mapped"
    /\ \E i, j \in SuccessfulPlaces :
          /\ sourceWeeks[i].price.t = "str" /\ "$" \in {sourceWeeks[i].price.s[k] : k \in 1 .. Len(sourceWeeks[i].price.s)}
          /\ sourceWeeks[j].price.t = "num"
          /\ mappings[i].proposedPrice = sourceWeeks[i].price
          /\ mappings[j].proposedPrice = sourceWeeks[j].price


\* the call of fn has returned
Returned(fn) == call.fn = fn /\ call.returned

\* C17: for every date D and weekStartDay W in 0..6 the week that
\* getWeekContainingDate(D, W) returns starts on weekday W, ends exactly 7
\* days after its start and contains D: start <= D < end.
C17_WeekContainsDate ==
    Returned("getWeekContainingDate") =>
        LET D == call.args[1]
            W == call.args[2]
            week == call.result
        IN  /\ GetDay(week.start) = W
            /\ week.end = week.start + 7
            /\ week.start <= D
            /\ D < week.end
            /\ D - week.start <= 6

\* C17 witness: the week of a January 1 that is not a start day, which
\* starts in the year before
C17_Witness ==
    /\ Returned("getWeekContainingDate")
    /\ GetMonth(call.args[1]) = 0 /\ GetDate(call.args[1]) = 1
    /\ GetDay(call.args[1]) # call.args[2]
    /\ GetFullYear(call.result.start) = GetFullYear(call.args[1]) - 1
    /\ call.result.start < call.args[1]

\* C18: for every year Y and weekStartDay W the weeks of
\* generateWeeksForYear(Y, W) all start on weekday W and in year Y,
\* consecutive starts 7 days apart, the first on the first W on or after
\* January 1 and the last on the last W of the year, so that every W of the
\* year is a week start and there are 52 or 53 weeks; each week ends 7 days
\* after its start and its key is the YYYY-MM-DD form of its start.
C18_WeeksOfYear ==
    Returned("generateWeeksForYear") =>
        LET Y == call.args[1]
            W == call.args[2]
            weeks == call.result
            jan1 == MakeDate(Y, 0, 1)
            dec31 == MakeDate(Y, 11, 31)
        IN  /\ Len(weeks) \in {52, 53}
            /\ \A k \in 1 .. Len(weeks) :
                  /\ GetDay(weeks[k].start) = W
                  /\ GetFullYear(weeks[k].start) = Y
                  /\ weeks[k].end = weeks[k].start + 7
                  /\ weeks[k].key = <<Y, GetMonth(weeks[k].start) + 1, GetDate(weeks[k].start)>>
                  /\ MakeDate(weeks[k].key[1], weeks[k].key[2] - 1, weeks[k].key[3]) = weeks[k].start
            /\ \A k \in 1 .. Len(weeks) - 1 : weeks[k + 1].start = weeks[k].start + 7
            /\ weeks[1].start - jan1 \in 0 .. 6
            /\ dec31 - weeks[Len(weeks)].start \in 0 .. 6
            /\ {weeks[k].start : k \in 1 .. Len(weeks)} = {d \in jan1 .. dec31 : GetDay(d) = W}

\* C18 witness: a year of 53 weeks whose first week starts after January 1
C18_Witness ==
    /\ Returned("generateWeeksForYear")
    /\ Len(call.result) = 53
    /\ call.result[1].start > MakeDate(call.args[1], 0, 1)

\* the holiday of the key in a list of holidays
HolidayOf(holidays, key) == holidays[CHOOSE i \in 1 .. Len(holidays) : holidays[i].key = key]

\* C19: for every year Y getHolidaysForYear(Y) returns exactly six holidays:
\* New Year's Day on January 1, July 4th on July 4 and Christmas on December
\* 25 of Y, Memorial Day on the last Monday of May (a Monday dated May 25 to
\* 31), Labor Day on the first Monday of September (a Monday dated September
\* 1 to 7) and Thanksgiving on the fourth Thursday of November (a Thursday
\* dated November 22 to 28).
C19_SixHolidays ==
    Returned("getHolidaysForYear") =>
        LET Y == call.args[1]
            holidays == call.result
            memorial == HolidayOf(holidays, "memorialDay").date
            labor == HolidayOf(holidays, "laborDay").date
            thanksgiving == HolidayOf(holidays, "thanksgiving").date
        IN  /\ Len(holidays) = 6
            /\ {holidays[i].key : i \in 1 .. Len(holidays)}
                  = {"newYearsDay", "memorialDay", "july4th", "laborDay", "thanksgiving", "christmas"}
            /\ HolidayOf(holidays, "newYearsDay").date = MakeDate(Y, 0, 1)
            /\ HolidayOf(holidays, "july4th").date = MakeDate(Y, 6, 4)
            /\ HolidayOf(holidays, "christmas").date = MakeDate(Y, 11, 25)
            /\ GetDay(memorial) = 1
            /\ MakeDate(Y, 4, 25) <= memorial /\ memorial <= MakeDate(Y, 4, 31)
            /\ GetDay(labor) = 1
            /\ MakeDate(Y, 8, 1) <= labor /\ labor <= MakeDate(Y, 8, 7)
            /\ GetDay(thanksgiving) = 4
            /\ MakeDate(Y, 10, 22) <= thanksgiving /\ thanksgiving <= MakeDate(Y, 10, 28)

\* C19 witness: a year whose September begins on a Monday, Labor Day
C19_Witness ==
    /\ Returned("getHolidaysForYear")
    /\ HolidayOf(call.result, "laborDay").date = MakeDate(call.args[1], 8, 1)
    /\ GetDay(MakeDate(call.args[1], 8, 1)) = 1

\* C20: for a commission rate r with 0 <= r < 1 calculateListPrice(net, r)
\* returns the smallest integer that is at least net / (1 - r); for r >= 1
\* it returns net unchanged.  The rate is the literal thousandths / 1000.
C20_ListPriceIsCeiling ==
    Returned("calculateListPrice") =>
        LET net == call.args[1]
            thousandths == call.args[2][1]
            kept == 1000 - thousandths
        IN  IF thousandths >= 1000 THEN call.result = net
            ELSE /\ call.result * kept >= net * 1000
                 /\ (call.result - 1) * kept < net * 1000

-----------------------------------------------------------------------------
(* Strategy reversals *)

\* the price of the mapping at list place i: its proposed price, for a
\* mapping without one the price of its source week
PriceAtPlace(i) == parsePrice(OrElse(mappings[i].proposedPrice, mappings[i].source.price))

NumericPrice(i) == ~PriceAtPlace(i).nan

PriceOf(i) == PriceAtPlace(i).v

\* the place of the successful mapping at list place i in the list of the
\* successful mappings sorted by target start (equal starts in list order)
OwnTargetPlace(i) ==
    Cardinality({j \in SuccessfulPlaces :
                    \/ mappings[j].target.start < mappings[i].target.start
                    \/ mappings[j].target.start = mappings[i].target.start /\ j <= i})

\* the list place of the mapping at place n of that sorted list
AtTargetPlace(n) == CHOOSE i \in SuccessfulPlaces : OwnTargetPlace(i) = n

\* more than the threshold above, or below, the average of two neighbours
Above(i, a, b) == 2 * PriceOf(i) - (PriceOf(a) + PriceOf(b)) > 200
Below(i, a, b) == 2 * PriceOf(i) - (PriceOf(a) + PriceOf(b)) < -200

\* the mapping at list place i against its list neighbours and against its
\* own neighbours in the target order
OwnReversal(i) ==
    /\ i \in SuccessfulPlaces /\ NumericPrice(i)
    /\ i - 1 \in MappedPlaces /\ NumericPrice(i - 1)
    /\ i + 1 \in MappedPlaces /\ NumericPrice(i + 1)
    /\ LET n == OwnTargetPlace(i)
       IN  /\ n > 1 /\ n < Cardinality(SuccessfulPlaces)
           /\ LET before == AtTargetPlace(n - 1)
                  after == AtTargetPlace(n + 1)
              IN  /\ NumericPrice(before) /\ NumericPrice(after)
                  /\ \/ Above(i, i - 1, i + 1) /\ Below(i, before, after)
                     \/ Below(i, i - 1, i + 1) /\ Above(i, before, after)

OwnReversals == {i \in MappedPlaces : OwnReversal(i)}

\* C21: detectConflicts emits a strategy_reversal conflict for a mapping
\* exactly when the mapping has a target and a numeric price, its list
\* neighbours and its own neighbours in the target-sorted list of successful
\* mappings exist with numeric prices, and its price is more than 100 above
\* the average of the one pair and more than 100 below that of the other;
\* the conflicts come in mapping-list order.
C21_ReversalExactlyWhenOwnNeighboursDiffer ==
    pc = "detected" =>
        LET found == ConflictsOfType("strategy_reversal")
        IN  /\ Cardinality(found) = Cardinality(OwnReversals)
            /\ \A k \in 1 .. Cardinality(found) :
                  LET conflict == conflicts[NthPlace(found, k)]
                      m == mappings[NthPlace(OwnReversals, k)]
                  IN  /\ conflict.sourceRange = m.sourceRange
                      /\ conflict.targetRange = m.targetRange
                      /\ conflict.price = m.proposedPrice

-----------------------------------------------------------------------------
(* applyResolutions and its inputs *)

\* C22: applyResolutions never mutates its inputs in place: over every call,
\* with any mix of resolved and unresolved conflicts, the input mapping list
\* holds the same objects with the same proposedPrice and other fields as
\* before the call.
C22_InputMappingsUntouched ==
    [][(pc = "detected" /\ pc' = "applied") => mappings' = mappings]_vars

-----------------------------------------------------------------------------
(* The mapper and malformed records *)

\* C23: mapWeeksByHolidays returns a mapping list, one mapping per source
\* week, without throwing, for every input, including a source week record
\* whose start date is missing or cannot be resolved to a calendar date.
C23_MapperNeverThrows ==
    Returned("mapWeeksByHolidays") =>
        /\ ~call.result.threw
        /\ Len(call.result.value) = Len(call.args[1])

-----------------------------------------------------------------------------
(* Interpolated prices *)

\* the gap conflicts with both neighbours
TwoSidedGaps ==
    {c \in ConflictsOfType("gap") : ~conflicts[c].nearestBefore.null /\ ~conflicts[c].nearestAfter.null}

\* those whose two neighbour prices parse to numbers
InterpolableGaps ==
    {c \in TwoSidedGaps :
        /\ ~parsePrice(conflicts[c].nearestBefore.price).nan
        /\ ~parsePrice(conflicts[c].nearestAfter.price).nan}

\* the places of the interpolate option among the options of a conflict
InterpolateOptions(c) ==
    {o \in 1 .. Len(conflicts[c].options) : conflicts[c].options[o].value = Interpolate}

\* "$" and the digits of n in groups of three: a comma stands exactly at
\* every fourth place from the end
IsCurrencyOf(chars, n) ==
    /\ Len(chars) >= 2
    /\ chars[1] = "$"
    /\ LET t == Tail(chars)
       IN  /\ \A k \in 1 .. Len(t) : (t[Len(t) - k + 1] = ",") <=> (k % 4 = 0)
           /\ SelectSeq(t, LAMBDA ch : ch # ",") = NatChars(n)

\* the interpolate option of conflict c carries the rounded mean of the two
\* neighbour prices as a currency string, between the two prices
CarriesRoundedMean(c) ==
    LET p1 == parsePrice(conflicts[c].nearestBefore.price).v
        p2 == parsePrice(conflicts[c].nearestAfter.price).v
        low == IF p1 <= p2 THEN p1 ELSE p2
        high == IF p1 <= p2 THEN p2 ELSE p1
    IN  /\ Cardinality(InterpolateOptions(c)) = 1
        /\ \A o \in InterpolateOptions(c) :
              LET text == conflicts[c].options[o].interpolatedPrice
                  n == parsePrice(text).v
              IN  /\ text.t = "str"
                  /\ 2 * n - (p1 + p2) \in {0, 1}
                  /\ IsCurrencyOf(text.s, n)
                  /\ low <= n /\ n <= high

\* C24 as stated: for every gap conflict with both neighbours, the
\* interpolate option's interpolatedPrice is the arithmetic mean of the
\* integer-parsed nearestBefore and nearestAfter prices, rounded to the
\* nearest integer with a half rounded up, written as a '$' currency string;
\* it lies between the two neighbour prices inclusive.
C24_InterpolatedPriceIsRoundedMean ==
    (pc = "detected" /\ NoneResolved) => \A c \in TwoSidedGaps : CarriesRoundedMean(c)

\* C24, amended: when both neighbour prices parse to numbers the interpolate
\* option carries their rounded mean as a currency string, between the two
\* prices; when one of them does not, it carries the nearestBefore price as
\* it stands.
C24_RoundedMeanOfParsedPrices ==
    (pc = "detected" /\ NoneResolved) =>
        /\ \A c \in InterpolableGaps : CarriesRoundedMean(c)
        /\ \A c \in TwoSidedGaps \ InterpolableGaps :
              /\ Cardinality(InterpolateOptions(c)) = 1
              /\ \A o \in InterpolateOptions(c) :
                    conflicts[c].options[o].interpolatedPrice = conflicts[c].nearestBefore.price

\* C24 witness: a gap between two mapped weeks whose prices have an odd sum,
\* so that the mean ends in .5
C24_Witness ==
    /\ pc = "detected" /\ NoneResolved
    /\ \E c \in InterpolableGaps :
          /\ (parsePrice(conflicts[c].nearestBefore.price).v
                + parsePrice(conflicts[c].nearestAfter.price).v) % 2 = 1
          /\ InterpolateOptions(c) # {}

-----------------------------------------------------------------------------
(* The order of the conflict list *)

\* the sections of the conflict list
TypeRank(type) == IF type = "collision" THEN 1 ELSE IF type = "gap" THEN 2 ELSE 3

\* the first place of the mapping list that maps onto a target key
FirstPlaceOnto(key) == CHOOSE i \in Contributors(key) : \A j \in Contributors(key) : i <= j

\* the places of the mappings a strategy_reversal conflict can speak about
PlacesOfReversal(c) ==
    {i \in SuccessfulPlaces :
        /\ mappings[i].sourceRange = conflicts[c].sourceRange
        /\ mappings[i].targetRange = conflicts[c].targetRange
        /\ mappings[i].proposedPrice = conflicts[c].price}

\* the conflict list as detectConflicts returns it
OrderedAndOpen ==
    /\ \A c, d \in 1 .. Len(conflicts) :
          c < d =>
             /\ TypeRank(conflicts[c].type) <= TypeRank(conflicts[d].type)
             /\ (conflicts[c].type = "collision" /\ conflicts[d].type = "collision") =>
                   FirstPlaceOnto(conflicts[c].targetWeek) < FirstPlaceOnto(conflicts[d].targetWeek)
             /\ (conflicts[c].type = "gap" /\ conflicts[d].type = "gap") =>
                   parseWeekKey(conflicts[c].targetWeek) < parseWeekKey(conflicts[d].targetWeek)
             /\ (conflicts[c].type = "strategy_reversal" /\ conflicts[d].type = "strategy_reversal") =>
                   \E i \in PlacesOfReversal(c), j \in PlacesOfReversal(d) : i < j
    /\ \A c \in 1 .. Len(conflicts) :
          /\ conflicts[c].type \in {"collision", "gap", "strategy_reversal"}
          /\ ~conflicts[c].resolved
          /\ conflicts[c].resolution = NoResolution
          /\ conflicts[c].options # <<>>
    /\ SelectSeq(conflicts, LAMBDA conflict : Len(conflict.options) > 0) = conflicts

-----------------------------------------------------------------------------
(* Collisions and gaps over the target weeks *)

\* the conflicts of a type that name a target week key
ConflictsOnto(type, key) == {c \in ConflictsOfType(type) : conflicts[c].targetWeek = key}

\* the keys of the generated target-year weeks that start in April to November
SeasonWeekKeys ==
    LET weeks == WeeksForYear(targetYear, weekStartDay)
    IN  {weeks[k].key : k \in {j \in 1 .. Len(weeks) : GetMonth(weeks[j].start) \in 3 .. 10}}

-----------------------------------------------------------------------------
(* Weeks of one anchor *)

\* pairs of successful mappings of source weeks with different start dates,
\* both starting on weekStartDay
DistinctAlignedPairs ==
    {p \in SuccessfulPlaces \X SuccessfulPlaces :
        /\ p[1] < p[2]
        /\ mappings[p[1]].sourceStart # mappings[p[2]].sourceStart
        /\ GetDay(mappings[p[1]].sourceStart) = weekStartDay
        /\ GetDay(mappings[p[2]].sourceStart) = weekStartDay}

\* C27: two source weeks with different start dates, both starting on
\* weekStartDay, whose nearest anchor is the same never map to the same
\* target week; every collision between source weeks with distinct start
\* dates involves weeks of at least two different anchors.
C27_SameAnchorNeverCollides ==
    pc = "mapped" =>
        \A p \in DistinctAlignedPairs :
            /\ mappings[p[1]].holidayKey = mappings[p[2]].holidayKey =>
                  mappings[p[1]].target.key # mappings[p[2]].target.key
            /\ mappings[p[1]].target.key = mappings[p[2]].target.key =>
                  mappings[p[1]].holidayKey # mappings[p[2]].holidayKey

\* C27 witness: two weeks of one anchor on different target weeks beside two
\* weeks of different start dates and different anchors on one target week
C27_Witness ==
    /\ pc = "mapped"
    /\ \E p \in DistinctAlignedPairs : mappings[p[1]].holidayKey = mappings[p[2]].holidayKey
    /\ \E p \in DistinctAlignedPairs : mappings[p[1]].target.key = mappings[p[2]].target.key

-----------------------------------------------------------------------------
(* Closing the gaps *)

\* C28: if every gap conflict returned by detectConflicts is marked resolved
\* with one of its offered options and applyResolutions is run, then
\* detectConflicts on the returned list, with the same target year and start
\* day, ends without error and returns no gap conflict.
C28_ResolvedGapsStayClosed ==
    (pc = "redetected" /\ AllGapsResolved) =>
        /\ ~call.result.threw
        /\ \A c \in 1 .. Len(call.result.value) : call.result.value[c].type # "gap"

\* the collisions the user resolved before the gaps
ResolvedCollisions ==
    {c \in 1 .. Len(conflicts) :
        conflicts[c].type = "collision" /\ conflicts[c].resolved /\ ~conflicts[c].resolution.null}

\* the second detection ended without error and returned no gap conflict
NoGapReturned ==
    /\ ~call.result.threw
    /\ \A c \in 1 .. Len(call.result.value) : call.result.value[c].type # "gap"

\* with every collision left unresolved the resolved gaps stay closed; a gap
\* comes back only on a week whose collision was resolved and whose mappings
\* applyResolutions all removed
GapsStayClosedBesideOpenCollisions ==
    (pc = "redetected" /\ AllGapsResolved /\ ResolvedCollisions = {}) => NoGapReturned

-----------------------------------------------------------------------------
(* Mappings in the order of their target weeks *)

\* every mapping of the list has a target, no two share a target week, and
\* the target weeks ascend along the list
DistinctTargetsInListOrder ==
    /\ \A i \in 1 .. Len(mappings) : HasTarget(mappings[i])
    /\ \A i, j \in 1 .. Len(mappings) :
          i < j => /\ mappings[i].target.key # mappings[j].target.key
                   /\ mappings[i].target.start < mappings[j].target.start

\* C29: when every source week is mapped onto a target week of its own and
\* the target weeks ascend along the list, detectConflicts on the mapper's
\* output returns no strategy_reversal conflict, whatever the prices.
C29_NoReversalInListOrder ==
    (Detected /\ DistinctTargetsInListOrder) =>
        \A c \in 1 .. Len(conflicts) : conflicts[c].type # "strategy_reversal"

\* C29 witness: such a list has been scanned and one of its mappings is
\* priced more than the threshold above or below its two neighbours, so the
\* comparison on the target side was made
C29_Witness ==
    /\ pc = "detected"
    /\ DistinctTargetsInListOrder
    /\ \E i \in 2 .. (Len(mappings) - 1) :
          /\ NumericPrice(i - 1) /\ NumericPrice(i) /\ NumericPrice(i + 1)
          /\ Above(i, i - 1, i + 1) \/ Below(i, i - 1, i + 1)

-----------------------------------------------------------------------------
(* Resolved reversals *)

\* the strategy_reversal conflicts that are resolved with one of their options
ResolvedReversals ==
    {c \in 1 .. Len(conflicts) :
        /\ conflicts[c].type = "strategy_reversal"
        /\ conflicts[c].resolved /\ ~conflicts[c].resolution.null}

\* the conflict list with those conflicts as detectConflicts returned them
ReversalsLeftOpen ==
    [c \in 1 .. Len(conflicts) |->
        IF c \in ResolvedReversals
        THEN [conflicts[c] EXCEPT !.resolved = FALSE, !.resolution = NoResolution]
        ELSE conflicts[c]]

\* C30: a resolved strategy_reversal conflict has no effect on
\* applyResolutions: with 'keep' as with 'adjust' the call returns the list
\* it returns when that conflict is left unresolved, the same mappings with
\* the same proposed prices in the same order.
C30_ResolvedReversalIsInert ==
    [][(pc = "detected" /\ pc' = "applied") =>
          /\ resolved' = applyResolutions(mappings, ReversalsLeftOpen).returned
          /\ mappings' = applyResolutions(mappings, ReversalsLeftOpen).objs]_vars

\* C30 witness: applyResolutions has run on a list whose strategy_reversal
\* conflict was resolved with 'adjust'
C30_Witness ==
    /\ pc = "applied"
    /\ \E c \in ResolvedReversals : conflicts[c].resolution.value = Adjust
    /\ Len(resolved) > 0

====
